---------------------------- MODULE Spec2Model ----------------------------
(***************************************************************************)
(* Model of riclassificatore_streamlit.py: the code normalizer, the        *)
(* numeric parser, the PDF parser with its two extraction strategies, the  *)
(* tabular and JSON adapters, the classifier and the aggregator of the     *)
(* CEE balance-sheet reclassifier.                                         *)
(*                                                                         *)
(* Python strings are TLA+ strings (sequences of characters): a character  *)
(* is a string of length one, read with SubSeq.  Amounts are exact         *)
(* decimals [num, dec] standing for num / 10^dec, kept normalised, so the  *)
(* binary rounding of float64 is not modelled.  The texts are ASCII; the   *)
(* cells of a spreadsheet are strings; what the PDF libraries do with a    *)
(* file is an input (the blocks they give, or the exception they raise);   *)
(* the messages written to the Streamlit page are left out.                *)
(***************************************************************************)
EXTENDS Integers, Sequences, FiniteSets, TLC

VARIABLES
    fase,       \* position of the call in progress
    mapping,    \* ParserDatiDinamico.mapping, the taxonomy
    ingresso,   \* argument of the call in progress (string, rows, document)
    dati_raw,   \* the dict 'info' / 'conti' / 'totali' built by an adapter
    indice,     \* number of records classified, or of calls made, so far
    struttura,  \* struttura_cee, the classified tree
    esito       \* value returned (or the exception raised) by the call

vars == <<fase, mapping, ingresso, dati_raw, indice, struttura, esito>>

\* the value of a variable that holds nothing yet
Nessuno == [nessuno |-> TRUE]

-----------------------------------------------------------------------------
(* Bounds of the model.                                                    *)

MaxLen == 3         \* longest argument of the two pure string functions

MaxRighe == 2       \* most rows of a tabular file

MaxConti == 2       \* most records of a list of a tree built by hand

MaxPagine == 1      \* most pages of a PDF document

MaxBlocchi == 2     \* most calls of the extractor on one dict of results

MaxLinee == 6       \* most lines of a text scanned for tables

-----------------------------------------------------------------------------
(* Strings.                                                                *)

At(s, i) == SubSeq(s, i, i)

Digit == {"0", "1", "2", "3", "4", "5", "6", "7", "8", "9"}

\* what str.strip() removes and what \s matches
Whitespace == {" ", "\t", "\n", "\r", "\f"}

RECURSIVE Stringhe(_, _)
Stringhe(A, n) ==
    IF n = 0 THEN {""}
    ELSE LET P == Stringhe(A, n - 1)
         IN  P \cup {s \o c : s \in {p \in P : Len(p) = n - 1}, c \in A}

RECURSIVE Keep(_, _)
\* re.sub(r'[^...]', '', s): the characters of s that are in S
Keep(s, S) ==
    IF s = "" THEN ""
    ELSE (IF At(s, 1) \in S THEN At(s, 1) ELSE "") \o Keep(SubSeq(s, 2, Len(s)), S)

RECURSIVE LStrip(_, _)
LStrip(s, S) ==
    IF s # "" /\ At(s, 1) \in S THEN LStrip(SubSeq(s, 2, Len(s)), S) ELSE s

RECURSIVE RStrip(_, _)
RStrip(s, S) ==
    IF s # "" /\ At(s, Len(s)) \in S THEN RStrip(SubSeq(s, 1, Len(s) - 1), S) ELSE s

\* str.strip() with S = Whitespace, str.strip(chars) otherwise
Strip(s, S) == RStrip(LStrip(s, S), S)

RECURSIVE ReplaceChars(_, _, _)
\* for c in S: s = s.replace(c, r), with r a string holding no character of S
ReplaceChars(s, S, r) ==
    IF s = "" THEN ""
    ELSE (IF At(s, 1) \in S THEN r ELSE At(s, 1))
             \o ReplaceChars(SubSeq(s, 2, Len(s)), S, r)

\* needle in s
Contains(s, needle) ==
    \E i \in 1..(Len(s) - Len(needle) + 1) : SubSeq(s, i, i + Len(needle) - 1) = needle

RECURSIVE Replace(_, _, _)
\* s.replace(old, new): non-overlapping occurrences of old, left to right
Replace(s, old, new) ==
    IF Len(s) < Len(old) THEN s
    ELSE IF SubSeq(s, 1, Len(old)) = old
         THEN new \o Replace(SubSeq(s, Len(old) + 1, Len(s)), old, new)
         ELSE At(s, 1) \o Replace(SubSeq(s, 2, Len(s)), old, new)

-----------------------------------------------------------------------------
(* CodiceContoValidator.formatta_codice                                    *)

separatori == {"-", ".", "/", "\\", " ", ",", ";", ":", "|"}

RECURSIVE RimuoviUnderscoreMultipli(_)
\* while '__' in codice: codice = codice.replace('__', '_')
RimuoviUnderscoreMultipli(s) ==
    IF Contains(s, "__") THEN RimuoviUnderscoreMultipli(Replace(s, "__", "_")) ELSE s

formatta_codice(codice) ==
    IF codice = "" THEN ""
    ELSE LET stripped == Strip(codice, Whitespace)
             kept     == Keep(stripped, Digit \cup {"-", ".", "_", "/"} \cup Whitespace)
             under    == ReplaceChars(kept, separatori, "_")
         IN  Strip(RimuoviUnderscoreMultipli(under), {"_"})


-----------------------------------------------------------------------------
(* Amounts: the float a record carries, as an exact decimal num / 10^dec.  *)

RECURSIVE Norm(_, _)
Norm(num, dec) ==
    IF dec > 0 /\ num % 10 = 0 THEN Norm(num \div 10, dec - 1)
    ELSE [num |-> num, dec |-> dec]

RECURSIVE Pow10(_)
Pow10(n) == IF n = 0 THEN 1 ELSE 10 * Pow10(n - 1)

Zero == [num |-> 0, dec |-> 0]

Intero(n) == [num |-> n, dec |-> 0]

Neg(a) == [num |-> 0 - a.num, dec |-> a.dec]

\* a + b and a - b
Add(a, b) ==
    LET d == IF a.dec >= b.dec THEN a.dec ELSE b.dec
    IN  Norm(a.num * Pow10(d - a.dec) + b.num * Pow10(d - b.dec), d)

Sub(a, b) == Add(a, Neg(b))

RECURSIVE ToInt(_)
ToInt(s) ==
    IF s = "" THEN 0
    ELSE 10 * ToInt(SubSeq(s, 1, Len(s) - 1)) + (CHOOSE n \in 0..9 : At("0123456789", n + 1) = At(s, Len(s)))

RECURSIVE Count(_, _)
\* s.count(c)
Count(s, c) ==
    IF s = "" THEN 0
    ELSE (IF At(s, 1) = c THEN 1 ELSE 0) + Count(SubSeq(s, 2, Len(s)), c)

\* s.rindex(c), 1-based, for a character that occurs in s
RIndex(s, c) == CHOOSE i \in 1..Len(s) : At(s, i) = c /\ \A j \in (i + 1)..Len(s) : At(s, j) # c

\* float(s) for a string of digits and periods: the value, or ValueError
\* when s holds no digit or more than one period
Float(s) ==
    IF Keep(s, Digit) = "" \/ Count(s, ".") > 1
    THEN [eccezione |-> "ValueError", valore |-> Zero]
    ELSE [eccezione |-> "",
          valore |-> Norm(ToInt(Keep(s, Digit)),
                          IF Count(s, ".") = 1 THEN Len(s) - RIndex(s, ".") ELSE 0)]

-----------------------------------------------------------------------------
(* PDFParserRobusto._converti_importo                                      *)

StartsWith(s, c) == s # "" /\ At(s, 1) = c

EndsWith(s, c) == s # "" /\ At(s, Len(s)) = c

\* lines 544-561: which of ',' and '.' is the decimal separator
\* lines 545-561 with every number read in the English format
FormatoNumeroInglese(s) == Keep(s, Digit \cup {"."})

\* lines 545-561 with the comma always read as the decimal separator
FormatoNumeroVirgolaDecimale(s) == ReplaceChars(Keep(s, Digit \cup {","}), {","}, ".")

\* lines 545-561: the separators of the cleaned string, Italian or English
FormatoNumero(s) ==
    IF Count(s, ",") > 0 /\ Count(s, ".") > 0
    THEN IF RIndex(s, ",") > RIndex(s, ".")
         THEN ReplaceChars(Keep(s, Digit \cup {","}), {","}, ".")
         ELSE Keep(s, Digit \cup {"."})
    ELSE IF Count(s, ",") > 0
         THEN IF Count(s, ",") = 1 /\ Len(s) - RIndex(s, ",") <= 2
              THEN ReplaceChars(s, {","}, ".")
              ELSE Keep(s, Digit)
         ELSE s

\* lines 563-567 without the except clause: float()'s ValueError escapes
ConvertiSenzaExcept(pulito, negativo) ==
    LET f == Float(pulito)
    IN  IF f.eccezione # "" THEN f
        ELSE [eccezione |-> "", valore |-> IF negativo THEN Neg(f.valore) ELSE f.valore]

\* lines 563-567: float() under try / except, 0.0 when it raises
Converti(pulito, negativo) ==
    LET f == Float(pulito)
    IN  IF f.eccezione # "" THEN [eccezione |-> "", valore |-> Zero]
        ELSE [eccezione |-> "", valore |-> IF negativo THEN Neg(f.valore) ELSE f.valore]

\* the call's outcome: the float returned and the exception raised, if any
converti_importo(valore_str) ==
    IF valore_str = "" THEN [eccezione |-> "", valore |-> Zero]
    ELSE LET stripped == Strip(valore_str, Whitespace)
             negativo == \/ StartsWith(stripped, "-")
                         \/ StartsWith(stripped, "(")
                         \/ EndsWith(stripped, ")")
             pulito   == FormatoNumero(Keep(stripped, Digit \cup {",", "."}))
         IN  Converti(pulito, negativo)

-----------------------------------------------------------------------------
(* Regular expressions (module re).  An expression is a tree of character  *)
(* sets, concatenations, alternatives and greedy bounded repetitions;      *)
(* Ends gives, in the order in which backtracking tries them, the          *)
(* positions at which a match starting at position i can end.              *)

Inf == 0 - 1    \* no upper limit of a repetition

RSet(S) == [t |-> "set", set |-> S, subs |-> <<>>, min |-> 1, max |-> 1]

RCat(subs) == [t |-> "cat", set |-> {}, subs |-> subs, min |-> 1, max |-> 1]

RAlt(subs) == [t |-> "alt", set |-> {}, subs |-> subs, min |-> 1, max |-> 1]

RRep(r, min, max) == [t |-> "rep", set |-> {}, subs |-> <<r>>, min |-> min, max |-> max]

RLit(c) == RSet({c})

ROpt(r) == RRep(r, 0, 1)

RPlus(r) == RRep(r, 1, Inf)

\* r*?
RLazy(r) == [t |-> "lazy", set |-> {}, subs |-> <<r>>, min |-> 0, max |-> Inf]

\* the number of characters of S in a row in s from position i
Corsa(S, s, i) ==
    Cardinality({n \in 1..(Len(s) + 1 - i) : \A j \in 0..(n - 1) : At(s, i + j) \in S})

RECURSIVE Ends(_, _, _), CatEnds(_, _, _, _), CatOver(_, _, _, _, _),
          AltEnds(_, _, _, _), RepEnds(_, _, _, _, _), RepOver(_, _, _, _, _, _, _),
          LazyEnds(_, _, _), LazyOver(_, _, _, _, _)

Ends(r, s, i) ==
    CASE r.t = "set" -> IF i <= Len(s) /\ At(s, i) \in r.set THEN <<i + 1>> ELSE <<>>
      [] r.t = "cat" -> CatEnds(r.subs, 1, s, i)
      [] r.t = "alt" -> AltEnds(r.subs, 1, s, i)
      [] r.t = "rep" -> IF r.subs[1].t = "set"
                        THEN \* a character set: the longest run first
                             LET run == Corsa(r.subs[1].set, s, i)
                                 hi  == IF r.max = Inf \/ run < r.max THEN run ELSE r.max
                             IN  IF hi < r.min THEN <<>>
                                 ELSE [k \in 1..(hi - r.min + 1) |-> i + hi + 1 - k]
                        ELSE RepEnds(r.subs[1], r.min, r.max, s, i)
      [] r.t = "lazy" -> IF r.subs[1].t = "set"
                         THEN [k \in 1..(Corsa(r.subs[1].set, s, i) + 1) |-> i + k - 1]
                         ELSE LazyEnds(r.subs[1], s, i)

\* subs[k..] matched from i
CatEnds(subs, k, s, i) ==
    IF k > Len(subs) THEN <<i>>
    ELSE CatOver(Ends(subs[k], s, i), 1, subs, k, s)

CatOver(ends, j, subs, k, s) ==
    IF j > Len(ends) THEN <<>>
    ELSE CatEnds(subs, k + 1, s, ends[j]) \o CatOver(ends, j + 1, subs, k, s)

AltEnds(subs, k, s, i) ==
    IF k > Len(subs) THEN <<>>
    ELSE Ends(subs[k], s, i) \o AltEnds(subs, k + 1, s, i)

\* greedy: one more repetition is tried before stopping
RepEnds(r, min, max, s, i) ==
    (IF max = 0 THEN <<>> ELSE RepOver(Ends(r, s, i), 1, r, min, max, s, i))
        \o (IF min = 0 THEN <<i>> ELSE <<>>)

RepOver(ends, j, r, min, max, s, i) ==
    IF j > Len(ends) THEN <<>>
    ELSE (IF ends[j] > i
          THEN RepEnds(r, IF min > 0 THEN min - 1 ELSE 0,
                       IF max = Inf THEN Inf ELSE max - 1, s, ends[j])
          ELSE <<>>)
         \o RepOver(ends, j + 1, r, min, max, s, i)

\* lazy: stopping is tried before one more repetition
LazyEnds(r, s, i) == <<i>> \o LazyOver(Ends(r, s, i), 1, r, s, i)

LazyOver(ends, j, r, s, i) ==
    IF j > Len(ends) THEN <<>>
    ELSE (IF ends[j] > i THEN LazyEnds(r, s, ends[j]) ELSE <<>>)
         \o LazyOver(ends, j + 1, r, s, i)

\* re.match(pattern, s): the pattern matches s from its start
ReMatch(r, s) == Ends(r, s, 1) # <<>>

RECURSIVE FirstPath(_, _, _, _), FirstOver(_, _, _, _, _)
\* the first match, in backtracking order, of the concatenation subs[k..]
\* from i, as the sequence of the positions at which its parts end
FirstPath(subs, k, s, i) ==
    IF k > Len(subs) THEN [ok |-> TRUE, path |-> <<>>]
    ELSE FirstOver(Ends(subs[k], s, i), 1, subs, k, s)

FirstOver(ends, j, subs, k, s) ==
    IF j > Len(ends) THEN [ok |-> FALSE, path |-> <<>>]
    ELSE LET rest == FirstPath(subs, k + 1, s, ends[j])
         IN  IF rest.ok THEN [ok |-> TRUE, path |-> <<ends[j]>> \o rest.path]
             ELSE FirstOver(ends, j + 1, subs, k, s)

\* the positions from i at which a match of the concatenation starts
Inizi(subs, s, i) == {j \in i..(Len(s) + 1) : FirstPath(subs, 1, s, j).ok}

RECURSIVE FindIter(_, _, _)
\* re.finditer(pattern, s) from position i: the non-overlapping matches,
\* left to right, each as [start, path]
FindIter(subs, s, i) ==
    LET I == Inizi(subs, s, i)
    IN  IF I = {} THEN <<>>
        ELSE LET j == CHOOSE x \in I : \A y \in I : x <= y
                 m == FirstPath(subs, 1, s, j)
             IN  <<[start |-> j, path |-> m.path]>>
                     \o FindIter(subs, s, IF m.path[Len(m.path)] > j
                                          THEN m.path[Len(m.path)] ELSE j + 1)

\* re.search(pattern, s) from position i: the leftmost match
ReSearch(subs, s, i) ==
    LET I == Inizi(subs, s, i)
    IN  IF I = {} THEN [ok |-> FALSE, start |-> 0, path |-> <<>>]
        ELSE LET j == CHOOSE x \in I : \A y \in I : x <= y
             IN  [ok |-> TRUE, start |-> j, path |-> FirstPath(subs, 1, s, j).path]

\* match.group(g) when group g is the part number g of the concatenation
Group(s, m, g) ==
    SubSeq(s, IF g = 1 THEN m.start ELSE m.path[g - 1], m.path[g] - 1)

-----------------------------------------------------------------------------
(* PDFParserRobusto: the line patterns and _estrai_conti                   *)

Letter == {"a", "b", "c", "d", "e", "f", "g", "h", "i", "j", "k", "l", "m",
           "n", "o", "p", "q", "r", "s", "t", "u", "v", "w", "x", "y", "z",
           "A", "B", "C", "D", "E", "F", "G", "H", "I", "J", "K", "L", "M",
           "N", "O", "P", "Q", "R", "S", "T", "U", "V", "W", "X", "Y", "Z"}

\* \s+
Spazi == RPlus(RSet(Whitespace))

\* ([A-Za-zÀ-ÿ\s\.,\-\'&]{3,60}); the texts of the model are ASCII
ReDescrizione == RRep(RSet(Letter \cup Whitespace \cup {".", ",", "-", "'", "&"}), 3, 60)

\* ([-]?\d{1,3}(?:[.,]\d{3})*(?:[.,]\d{2})?)
ReImporto ==
    RCat(<<ROpt(RLit("-")), RRep(RSet(Digit), 1, 3),
           RRep(RCat(<<RSet({".", ","}), RRep(RSet(Digit), 3, 3)>>), 0, Inf),
           ROpt(RCat(<<RSet({".", ","}), RRep(RSet(Digit), 2, 2)>>))>>)

\* [-.\s/_]*
ReSepCodice == RRep(RSet({"-", ".", "/", "_"} \cup Whitespace), 0, Inf)

\* self.patterns_conti: each pattern as the parts of its concatenation and
\* the numbers of the parts that are its groups 1, 2 and 3.  The patterns
\* are used with re.IGNORECASE, so a letter class holds both cases.
patterns_conti ==
    << \* ([0-9]{1,2}[-.\s/_]*[0-9]{1,2}[-.\s/_]*[0-9]{1,4})\s+(...)\s+(...)
       [subs |-> <<RCat(<<RRep(RSet(Digit), 1, 2), ReSepCodice,
                          RRep(RSet(Digit), 1, 2), ReSepCodice,
                          RRep(RSet(Digit), 1, 4)>>),
                   Spazi, ReDescrizione, Spazi, ReImporto>>,
        g1 |-> 1, g2 |-> 3, g3 |-> 5],
       \* ([A-Z]\.?[IVX]{0,3}\.?\d*\)?)\s+(...)\s+(...)
       [subs |-> <<RCat(<<RSet(Letter), ROpt(RLit(".")),
                          RRep(RSet({"I", "V", "X", "i", "v", "x"}), 0, 3),
                          ROpt(RLit(".")), RRep(RSet(Digit), 0, Inf), ROpt(RLit(")"))>>),
                   Spazi, ReDescrizione, Spazi, ReImporto>>,
        g1 |-> 1, g2 |-> 3, g3 |-> 5],
       \* (\d{1,4})\s+(...)\s+(...)
       [subs |-> <<RRep(RSet(Digit), 1, 4), Spazi, ReDescrizione, Spazi, ReImporto>>,
        g1 |-> 1, g2 |-> 3, g3 |-> 5],
       \* \((\d+)\)\s+(...)\s+(...)
       [subs |-> <<RLit("("), RPlus(RSet(Digit)), RLit(")"),
                   Spazi, ReDescrizione, Spazi, ReImporto>>,
        g1 |-> 2, g2 |-> 5, g3 |-> 7] >>

RECURSIVE CollassaSpazi(_)
\* re.sub(r'\s+', ' ', s)
CollassaSpazi(s) ==
    IF s = "" THEN ""
    ELSE IF At(s, 1) \in Whitespace
         THEN " " \o CollassaSpazi(LStrip(s, Whitespace))
         ELSE At(s, 1) \o CollassaSpazi(SubSeq(s, 2, Len(s)))

\* abs(a - b) < 0.01
Vicini(a, b) ==
    LET d == Sub(a, b)
        n == IF d.num < 0 THEN 0 - d.num ELSE d.num
    IN  n * 100 < Pow10(d.dec)

\* lines 572-577 with the amounts compared for equality
ContoDuplicatoEsatto(conto, conti_list) ==
    \E k \in 1..Len(conti_list) : conti_list[k] = conto

conto_duplicato(conto, conti_list) ==
    \E k \in 1..Len(conti_list) :
        /\ conti_list[k].codice = conto.codice
        /\ conti_list[k].descrizione = conto.descrizione
        /\ Vicini(conti_list[k].valore, conto.valore)

RECURSIVE EstraiMatches(_, _, _, _, _)
\* the loop of _estrai_conti over the matches ms of one pattern, from the
\* match number k (lines 441-469)
EstraiMatches(testo, p, ms, k, conti_list) ==
    IF k > Len(ms) THEN conti_list
    ELSE
    LET m           == ms[k]
        codice      == Strip(Group(testo, m, p.g1), Whitespace)
        valore_str  == Strip(Group(testo, m, p.g3), Whitespace)
        descrizione ==
            Strip(Replace(CollassaSpazi(Strip(Group(testo, m, p.g2), Whitespace)),
                          "...", ""), Whitespace)
        valore      == converti_importo(valore_str).valore
        conto       == [codice |-> formatta_codice(codice),
                        descrizione |-> descrizione,
                        valore |-> valore]
    IN  EstraiMatches(testo, p, ms, k + 1,
            IF Len(descrizione) < 3
               \/ (descrizione # "" /\ Keep(descrizione, Digit) = descrizione)   \* isdigit()
            THEN conti_list
            ELSE IF valore # Zero /\ Len(descrizione) > 2
                      /\ ~conto_duplicato(conto, conti_list)
                 THEN Append(conti_list, conto)
                 ELSE conti_list)

RECURSIVE EstraiPatterns(_, _, _)
EstraiPatterns(testo, k, conti_list) ==
    IF k > Len(patterns_conti) THEN conti_list
    ELSE EstraiPatterns(testo, k + 1,
             EstraiMatches(testo, patterns_conti[k],
                           FindIter(patterns_conti[k].subs, testo, 1), 1, conti_list))

\* _estrai_conti(testo, conti_list): the list after the call
estrai_conti(testo, conti_list) == EstraiPatterns(testo, 1, conti_list)

-----------------------------------------------------------------------------
(* The taxonomy (MappingConfigurator).  A node of the mapping is a dict    *)
(* that may carry 'pattern', 'voci' and, under other keys, child dicts:    *)
(* figli lists the children in the order of declaration.                   *)

Regola(pattern, voci) ==
    [haPattern |-> TRUE, pattern |-> pattern, haVoci |-> TRUE, voci |-> voci,
     figli |-> <<>>]

Nodo(figli) ==
    [haPattern |-> FALSE, pattern |-> RSet({}), haVoci |-> FALSE, voci |-> <<>>,
     figli |-> figli]

NodoRegola(pattern, voci, figli) ==
    [haPattern |-> TRUE, pattern |-> pattern, haVoci |-> TRUE, voci |-> voci,
     figli |-> figli]

Figlio(nome, config) == [nome |-> nome, config |-> config]

\* [-_]
Sep == RSet({"-", "_"})

\* \d+ and \d*
Cifre1 == RPlus(RSet(Digit))

Cifre0 == RRep(RSet(Digit), 0, Inf)

RECURSIVE RStr(_)
\* a literal string
RStr(s) == IF Len(s) = 1 THEN RLit(s)
           ELSE RCat(<<RLit(At(s, 1)), RStr(SubSeq(s, 2, Len(s)))>>)

\* 1[-_](a|b|...)  and  x[-_]y : the common shapes of the default patterns
Pat3(a, b, coda) == RCat(<<RStr(a), Sep, b, coda>>)

AltStr(ss) == RAlt([k \in 1..Len(ss) |-> RStr(ss[k])])

carica_mapping_default ==
    Nodo(<<
      Figlio("attivo", Nodo(<<
        Figlio("immobilizzazioni", Nodo(<<
          Figlio("immateriali",            \* 1[-_]7[-_]\d+
            Regola(Pat3("1", RStr("7"), RCat(<<Sep, Cifre1>>)),
                   <<"software", "licenze", "brevetti", "avviamento",
                     "costi di impianto">>)),
          Figlio("materiali", Nodo(<<
            Figlio("terreni_fabbricati",   \* 1[-_]6[-_](10|11)
              Regola(Pat3("1", RStr("6"), RCat(<<Sep, AltStr(<<"10", "11">>)>>)),
                     <<"fabbricato", "terreno", "immobile">>)),
            Figlio("impianti",             \* 1[-_]6[-_](1|2|13)
              Regola(Pat3("1", RStr("6"), RCat(<<Sep, AltStr(<<"1", "2", "13">>)>>)),
                     <<"impianti", "macchinari", "centrale",
                       "attrezzature industriali">>)),
            Figlio("attrezzature",         \* 1[-_]6[-_]3
              Regola(Pat3("1", RStr("6"), RCat(<<Sep, RStr("3")>>)),
                     <<"attrezzatura", "attrezzature", "utensili">>)),
            Figlio("altri",                \* 1[-_]6[-_](4|5|6)
              Regola(Pat3("1", RStr("6"), RCat(<<Sep, AltStr(<<"4", "5", "6">>)>>)),
                     <<"automezzi", "macchine", "mobili", "arredi", "hardware">>))
          >>)),
          Figlio("finanziarie",            \* 1[-_]16[-_]\d+
            Regola(Pat3("1", RStr("16"), RCat(<<Sep, Cifre1>>)),
                   <<"titoli", "partecipazioni", "crediti finanziari", "azioni">>))
        >>)),
        Figlio("circolante", Nodo(<<
          Figlio("rimanenze",              \* 1[-_]10[-_]\d+
            Regola(Pat3("1", RStr("10"), RCat(<<Sep, Cifre1>>)),
                   <<"magazzino", "rimanenze", "prodotti", "merci",
                     "materie prime">>)),
          Figlio("crediti", Nodo(<<
            Figlio("clienti",              \* 1[-_](3|4)[-_]\d+
              Regola(Pat3("1", AltStr(<<"3", "4">>), RCat(<<Sep, Cifre1>>)),
                     <<"clienti", "effetti", "fatture da emettere",
                       "crediti commerciali">>)),
            Figlio("tributari",            \* 1[-_]5[-_]1\d+
              Regola(Pat3("1", RStr("5"), RCat(<<Sep, RStr("1"), Cifre1>>)),
                     <<"erario", "iva", "crediti tributari", "imposte">>)),
            Figlio("altri",                \* 1[-_](5|13)[-_]\d+
              Regola(Pat3("1", AltStr(<<"5", "13">>), RCat(<<Sep, Cifre1>>)),
                     <<"crediti diversi", "anticipi", "depositi", "cauzioni">>))
          >>)),
          Figlio("disponibilita",          \* 1[-_](1|2)[-_]?\d*
            Regola(Pat3("1", AltStr(<<"1", "2">>), RCat(<<ROpt(Sep), Cifre0>>)),
                   <<"cassa", "banca", "banche", "depositi", "c/c", "denaro">>))
        >>)),
        Figlio("ratei_risconti",           \* 1[-_]8[-_]\d+
          Regola(Pat3("1", RStr("8"), RCat(<<Sep, Cifre1>>)),
                 <<"ratei attivi", "risconti attivi">>))
      >>)),
      Figlio("passivo", Nodo(<<
        Figlio("patrimonio",               \* 2[-_]13[-_]\d+
          Regola(Pat3("2", RStr("13"), RCat(<<Sep, Cifre1>>)),
                 <<"capitale sociale", "riserva", "utili", "perdite",
                   "patrimonio netto">>)),
        Figlio("fondi",                    \* 2[-_](8|12)[-_]\d*
          Regola(Pat3("2", AltStr(<<"8", "12">>), RCat(<<Sep, Cifre0>>)),
                 <<"tfr", "fondi", "accantonamenti", "fondo rischi",
                   "trattamento">>)),
        Figlio("debiti",                   \* 2[-_](2|3|4|6)[-_]?\d*
          Regola(Pat3("2", AltStr(<<"2", "3", "4", "6">>), RCat(<<ROpt(Sep), Cifre0>>)),
                 <<"debiti", "fornitori", "banche", "finanziamenti", "mutui",
                   "prestiti">>)),
        Figlio("ratei_risconti",           \* 2[-_]7[-_]\d+
          Regola(Pat3("2", RStr("7"), RCat(<<Sep, Cifre1>>)),
                 <<"ratei passivi", "risconti passivi">>))
      >>)),
      Figlio("fondi_ammortamento",         \* 2[-_]9[-_]\d+
        Regola(Pat3("2", RStr("9"), RCat(<<Sep, Cifre1>>)),
               <<"ammortamento", "f.do amm", "fondo ammortamento",
                 "ammortamenti">>))
    >>)

\* mapping['passivo'] with the other roots of the mapping, all but
\* 'attivo', among its categories
RadiceConAltre(m, nome) ==
    LET base == (CHOOSE f \in {m.figli[k] : k \in 1..Len(m.figli)} : f.nome = nome).config
    IN  IF nome = "passivo"
        THEN [base EXCEPT !.figli =
                 @ \o SelectSeq(m.figli, LAMBDA f : f.nome \notin {"attivo", "passivo"})]
        ELSE base

\* mapping[nome], for a key the mapping has
Radice(m, nome) ==
    (CHOOSE f \in {m.figli[k] : k \in 1..Len(m.figli)} : f.nome = nome).config

-----------------------------------------------------------------------------
(* The classified tree.  struttura['attivo'] and struttura['passivo'] are  *)
(* nested dicts whose leaves are lists of records: each is modelled as a   *)
(* function from the paths of its nodes (sequences of keys, <<>> for the   *)
(* root) to the node, a dict or a list with its records.                   *)

Dict == [tipo |-> "dict", conti |-> <<>>]

Lista(conti) == [tipo |-> "list", conti |-> conti]

\* lines 810-831
ScheletroAttivo ==
    (<<>> :> Dict)
    @@ (<<"immobilizzazioni">> :> Dict)
    @@ (<<"immobilizzazioni", "immateriali">> :> Lista(<<>>))
    @@ (<<"immobilizzazioni", "materiali">> :> Dict)
    @@ (<<"immobilizzazioni", "materiali", "terreni_fabbricati">> :> Lista(<<>>))
    @@ (<<"immobilizzazioni", "materiali", "impianti">> :> Lista(<<>>))
    @@ (<<"immobilizzazioni", "materiali", "attrezzature">> :> Lista(<<>>))
    @@ (<<"immobilizzazioni", "materiali", "altri">> :> Lista(<<>>))
    @@ (<<"immobilizzazioni", "finanziarie">> :> Lista(<<>>))
    @@ (<<"circolante">> :> Dict)
    @@ (<<"circolante", "rimanenze">> :> Lista(<<>>))
    @@ (<<"circolante", "crediti">> :> Dict)
    @@ (<<"circolante", "crediti", "clienti">> :> Lista(<<>>))
    @@ (<<"circolante", "crediti", "tributari">> :> Lista(<<>>))
    @@ (<<"circolante", "crediti", "altri">> :> Lista(<<>>))
    @@ (<<"circolante", "disponibilita">> :> Lista(<<>>))
    @@ (<<"ratei_risconti">> :> Lista(<<>>))

\* lines 832-838
ScheletroPassivo ==
    (<<>> :> Dict)
    @@ (<<"patrimonio_netto">> :> Lista(<<>>))
    @@ (<<"fondi">> :> Lista(<<>>))
    @@ (<<"tfr">> :> Lista(<<>>))
    @@ (<<"debiti">> :> Lista(<<>>))
    @@ (<<"ratei_risconti">> :> Lista(<<>>))

\* t with the node at path p set to n (a new key of the dict above it, or
\* the new content of an existing node)
Metti(t, p, n) == [q \in DOMAIN t \cup {p} |-> IF q = p THEN n ELSE t[q]]

\* every record of every list of t, one after the other
RECURSIVE ContiDi(_, _)
ContiDi(t, paths) ==
    IF paths = {} THEN <<>>
    ELSE LET p == CHOOSE q \in paths : TRUE
         IN  t[p].conti \o ContiDi(t, paths \ {p})

-----------------------------------------------------------------------------
(* ParserDatiDinamico: the classifier                                      *)

Maiuscole == "ABCDEFGHIJKLMNOPQRSTUVWXYZ"

Minuscole == "abcdefghijklmnopqrstuvwxyz"

LowerChar(c) ==
    IF \E k \in 1..26 : At(Maiuscole, k) = c
    THEN At(Minuscole, CHOOSE k \in 1..26 : At(Maiuscole, k) = c)
    ELSE c

RECURSIVE Lower(_)
\* s.lower()
Lower(s) == IF s = "" THEN "" ELSE LowerChar(At(s, 1)) \o Lower(SubSeq(s, 2, Len(s)))

RECURSIVE Split(_, _)
\* s.split(c)
Split(s, c) ==
    IF Count(s, c) = 0 THEN <<s>>
    ELSE LET k == CHOOSE i \in 1..Len(s) : At(s, i) = c /\ \A j \in 1..(i - 1) : At(s, j) # c
         IN  <<SubSeq(s, 1, k - 1)>> \o Split(SubSeq(s, k + 1, Len(s)), c)

\* lines 921-928: the node's own pattern matches the code from its start,
\* or one of its own keywords is in the description
MatchNodo(codice, descrizione, config) ==
    \/ config.haPattern /\ ReMatch(config.pattern, codice)
    \/ config.haVoci /\ \E k \in 1..Len(config.voci) : Contains(descrizione, config.voci[k])

RECURSIVE match_pattern_ricorsivo(_, _, _)
match_pattern_ricorsivo(codice, descrizione, config) ==
    \/ MatchNodo(codice, descrizione, config)
    \/ \E k \in 1..Len(config.figli) :
           match_pattern_ricorsivo(codice, descrizione, config.figli[k].config)

RECURSIVE Scendi(_, _, _, _)
\* lines 943-946: the walk along parts[k..] from the node at path current,
\* creating an empty list under a missing key; a list met on the way is
\* indexed with a string, which raises TypeError
Scendi(t, current, parts, k) ==
    IF k > Len(parts) THEN [eccezione |-> "", albero |-> t, current |-> current]
    ELSE IF t[current].tipo = "list"
         THEN [eccezione |-> "TypeError", albero |-> t, current |-> current]
         ELSE LET sotto == Append(current, parts[k])
              IN  Scendi(IF sotto \in DOMAIN t THEN t ELSE Metti(t, sotto, Lista(<<>>)),
                         sotto, parts, k + 1)

\* an append made only when the amount has an even last digit
AppendiSePari(t, p, conto) ==
    IF t[p].tipo = "list"
    THEN [eccezione |-> "",
          albero |-> IF conto.valore.num % 2 = 0
                     THEN Metti(t, p, Lista(Append(t[p].conti, conto)))
                     ELSE t]
    ELSE [eccezione |-> "AttributeError", albero |-> t]

\* an append that writes the lower-cased description into the record
AppendiMinuscolo(t, p, conto) ==
    IF t[p].tipo = "list"
    THEN [eccezione |-> "",
          albero |-> Metti(t, p, Lista(Append(t[p].conti,
                        [conto EXCEPT !.descrizione = Lower(@)])))]
    ELSE [eccezione |-> "AttributeError", albero |-> t]

\* current[key].insert(0, conto) in the place of the append
AppendiInTesta(t, p, conto) ==
    IF t[p].tipo = "list"
    THEN [eccezione |-> "", albero |-> Metti(t, p, Lista(<<conto>> \o t[p].conti))]
    ELSE [eccezione |-> "AttributeError", albero |-> t]

\* current[key].append(conto): AttributeError when current[key] is a dict
Appendi(t, p, conto) ==
    IF t[p].tipo = "list"
    THEN [eccezione |-> "", albero |-> Metti(t, p, Lista(Append(t[p].conti, conto)))]
    ELSE [eccezione |-> "AttributeError", albero |-> t]

\* _inserisci_conto_ricorsivo(conto, dest, path, config): dest after the
\* call and the exception it raised, if any.  Lines 952-958: k is the
\* first child of config, in declaration order, that is a dict with a
\* pattern matching the code, 0 when there is none
inserisci_conto_ricorsivo(conto, dest, path, config) ==
    LET w == Scendi(dest, <<>>, Split(path, "."), 1)
    IN  IF w.eccezione # "" THEN [eccezione |-> w.eccezione, albero |-> w.albero]
        ELSE IF w.albero[w.current].tipo = "list"
             THEN Appendi(w.albero, w.current, conto)
             ELSE LET S == {j \in 1..Len(config.figli) :
                               /\ config.figli[j].config.haPattern
                               /\ ReMatch(config.figli[j].config.pattern, conto.codice)}
                      k == IF S = {} THEN 0 ELSE CHOOSE j \in S : \A i \in S : j <= i
                  IN  IF k = 0 THEN [eccezione |-> "", albero |-> w.albero]
                      ELSE LET sotto == Append(w.current, config.figli[k].nome)
                           IN  Appendi(IF sotto \in DOMAIN w.albero THEN w.albero
                                       ELSE Metti(w.albero, sotto, Lista(<<>>)),
                                       sotto, conto)

\* lines 887-899, in the order of iteration: section, category, keywords
keywords_map ==
    << <<"attivo", "immobilizzazioni",
         <<"immobilizz", "software", "brevett", "impianto", "macchin",
           "fabbricat", "terren">> >>,
       <<"attivo", "circolante",
         <<"client", "credit", "cassa", "banca", "rimanenz", "magazz">> >>,
       <<"attivo", "ratei_risconti", <<"ratei attiv", "riscont attiv">> >>,
       <<"passivo", "patrimonio_netto", <<"capitale", "riserv", "utili", "perdite">> >>,
       <<"passivo", "debiti",
         <<"fornitor", "debit", "mutui", "prestit", "finanziament">> >>,
       <<"passivo", "fondi", <<"tfr", "fondo", "accantonament">> >>,
       <<"passivo", "ratei_risconti", <<"ratei passiv", "riscont passiv">> >> >>

\* lines 905-913 with every section appended to under its own name
SecchioPerNome(sezione, categoria) == <<categoria>>

\* lines 905-913: the list a keyword of (sezione, categoria) appends to
Secchio(sezione, categoria) ==
    IF sezione = "attivo"
    THEN IF categoria = "immobilizzazioni" THEN <<"immobilizzazioni", "immateriali">>
         ELSE IF categoria = "circolante" THEN <<"circolante", "disponibilita">>
         ELSE <<categoria>>
    ELSE <<categoria>>

\* the first entry of keywords_map with a keyword in the description; 0
\* when there is none
PrimaKeyword(descrizione) ==
    LET S == {k \in 1..Len(keywords_map) :
                 \E j \in 1..Len(keywords_map[k][3]) :
                     Contains(descrizione, keywords_map[k][3][j])}
    IN  IF S = {} THEN 0 ELSE CHOOSE k \in S : \A j \in S : k <= j

\* _classifica_per_keywords(conto, struttura): the tree after the call,
\* the value returned and the exception raised, if any
classifica_per_keywords(conto, s) ==
    LET k == PrimaKeyword(Lower(conto.descrizione))
    IN  IF k = 0 THEN [eccezione |-> "", struttura |-> s, classificato |-> FALSE]
        ELSE LET sezione == keywords_map[k][1]
                 a == Appendi(s[sezione], Secchio(sezione, keywords_map[k][2]), conto)
             IN  [eccezione |-> a.eccezione,
                  struttura |-> [s EXCEPT ![sezione] = a.albero],
                  classificato |-> TRUE]

\* lines 863-875 with a tie between the categories that match broken by
\* the number of calls made so far: the first or the last of them
PrimaCategoriaAlterna(m, sezione, codice, descrizione) ==
    LET figli == Radice(m, sezione).figli
        S == {k \in 1..Len(figli) :
                 match_pattern_ricorsivo(codice, descrizione, figli[k].config)}
    IN  IF S = {} THEN 0
        ELSE IF indice % 2 = 0 THEN CHOOSE k \in S : \A j \in S : k <= j
        ELSE CHOOSE k \in S : \A j \in S : k >= j

\* the first category of mapping[sezione], in declaration order, that
\* _match_pattern_ricorsivo accepts; 0 when there is none
PrimaCategoria(m, sezione, codice, descrizione) ==
    LET figli == Radice(m, sezione).figli
        S == {k \in 1..Len(figli) :
                 match_pattern_ricorsivo(codice, descrizione, figli[k].config)}
    IN  IF S = {} THEN 0 ELSE CHOOSE k \in S : \A j \in S : k <= j

\* lines 862-875 for one root
ClassificaIn(m, sezione, k, conto, s) ==
    LET f == Radice(m, sezione).figli[k]
        r == inserisci_conto_ricorsivo(conto, s[sezione], f.nome, f.config)
    IN  [eccezione |-> r.eccezione,
         struttura |-> [s EXCEPT ![sezione] = r.albero],
         classificato |-> TRUE]

\* _classifica_conto(conto, struttura) with self.mapping = m: the tree
\* after the call and the exception raised, if any
classifica_conto(m, conto, s) ==
    LET codice      == conto.codice
        descrizione == Lower(conto.descrizione)
        ka == PrimaCategoria(m, "attivo", codice, descrizione)
        kp == PrimaCategoria(m, "passivo", codice, descrizione)
    IN  IF ka # 0 THEN ClassificaIn(m, "attivo", ka, conto, s)
        ELSE IF kp # 0 THEN ClassificaIn(m, "passivo", kp, conto, s)
        ELSE classifica_per_keywords(conto, s)

-----------------------------------------------------------------------------
(* ParserDatiDinamico: the aggregator                                      *)

\* the keys of the dict at path p of t
Chiavi(t, p) ==
    {q[Len(q)] : q \in {r \in DOMAIN t : Len(r) = Len(p) + 1 /\ SubSeq(r, 1, Len(p)) = p}}

RECURSIVE SommaConti(_)
SommaConti(conti) ==
    IF conti = <<>> THEN Zero ELSE Add(Head(conti).valore, SommaConti(Tail(conti)))

\* line 989 with no key left out
NessunaChiaveEsclusa == {}

\* line 989: the keys of a dict that the sum does not enter
chiavi_escluse == {"info", "totali", "totali_originali"}

RECURSIVE SommaNodo(_, _), SommaChiavi(_, _, _)
\* _somma_ricorsiva(obj) for the node obj at path p of t: the sum and the
\* exception raised, if any.  A dict with a key 'valore' is taken for a
\* record and float() is applied to what the key holds, a list or a dict
\* in a tree: TypeError
SommaNodo(t, p) ==
    IF t[p].tipo = "list" THEN [eccezione |-> "", valore |-> SommaConti(t[p].conti)]
    ELSE IF "valore" \in Chiavi(t, p) THEN [eccezione |-> "TypeError", valore |-> Zero]
    ELSE SommaChiavi(t, p, Chiavi(t, p) \ chiavi_escluse)

SommaChiavi(t, p, chiavi) ==
    IF chiavi = {} THEN [eccezione |-> "", valore |-> Zero]
    ELSE LET k == CHOOSE x \in chiavi : TRUE
             a == SommaNodo(t, Append(p, k))
             b == SommaChiavi(t, p, chiavi \ {k})
         IN  IF a.eccezione # "" THEN a
             ELSE IF b.eccezione # "" THEN b
             ELSE [eccezione |-> "", valore |-> Add(a.valore, b.valore)]

somma_ricorsiva(t) == SommaNodo(t, <<>>)

\* line 974 with the sum in place of the difference
QuadraturaSomma(totale_attivo, totale_passivo) == Add(totale_attivo, totale_passivo)

\* line 974: totale_attivo - totale_passivo
Quadratura(totale_attivo, totale_passivo) == Sub(totale_attivo, totale_passivo)

\* _calcola_totali(struttura): struttura['totali'], and the exception
\* raised, if any
calcola_totali(s) ==
    LET a == somma_ricorsiva(s.attivo)
        p == somma_ricorsiva(s.passivo)
        base == [attivo |-> a.valore, passivo |-> p.valore,
                 quadratura |-> Quadratura(a.valore, p.valore)]
    IN  IF a.eccezione # "" THEN [eccezione |-> a.eccezione, totali |-> <<>>]
        ELSE IF p.eccezione # "" THEN [eccezione |-> p.eccezione, totali |-> <<>>]
        ELSE [eccezione |-> "",
              totali |-> IF "totali_originali" \in DOMAIN s
                         THEN base @@ ("originali" :> s.totali_originali)
                         ELSE base]

-----------------------------------------------------------------------------
(* ParserDatiDinamico: the tabular adapters.  A row is the sequence of     *)
(* its (column name, cell) pairs; the cells of the model are strings.      *)

ContieneUna(s, parole) == \E k \in 1..Len(parole) : Contains(s, parole[k])

RECURSIVE LeggiColonne(_, _, _)
\* lines 772-782: the last column of each kind gives the field
LeggiColonne(row, k, campi) ==
    IF k > Len(row) THEN campi
    ELSE LET key_lower == Lower(row[k][1])
             val == row[k][2]
         IN  LeggiColonne(row, k + 1,
                 IF row[k][1] = "" THEN campi
                 ELSE IF ContieneUna(key_lower, <<"codice", "conto", "cod">>)
                      THEN [campi EXCEPT !.codice = val]
                 ELSE IF ContieneUna(key_lower, <<"descr", "intestaz", "voce">>)
                      THEN [campi EXCEPT !.descrizione = val]
                 ELSE IF ContieneUna(key_lower,
                                     <<"saldo", "importo", "valore", "dare", "avere">>)
                      THEN [campi EXCEPT !.valore = val]
                 ELSE campi)

\* _estrai_conto_da_riga_csv(row): the records it gives, none or one (None
\* and the empty string, both false, are the empty string).  float() of a
\* cell: an optional sign, then digits with at most one period (the cells
\* of the model hold no exponent, underscore, inf or nan)
estrai_conto_da_riga_csv(row) ==
    LET campi == LeggiColonne(row, 1, [codice |-> "", descrizione |-> "", valore |-> ""])
        \* str(valore).replace('.', '').replace(',', '.')
        valore == Replace(Replace(campi.valore, ".", ""), ",", ".")
        t      == Strip(valore, Whitespace)
        corpo  == IF StartsWith(t, "-") \/ StartsWith(t, "+")
                  THEN SubSeq(t, 2, Len(t)) ELSE t
        g      == Float(corpo)
        f      == IF Keep(corpo, Digit \cup {"."}) # corpo
                  THEN [eccezione |-> "ValueError", valore |-> Zero]
                  ELSE IF g.eccezione = "" /\ StartsWith(t, "-")
                       THEN [eccezione |-> "", valore |-> Neg(g.valore)]
                       ELSE g
    IN  IF campi.codice # "" /\ campi.valore # "" /\ f.eccezione = ""
        THEN <<[codice |-> formatta_codice(campi.codice),
                descrizione |-> campi.descrizione,
                valore |-> f.valore]>>
        ELSE <<>>

RECURSIVE ContiDaRighe(_, _)
\* lines 653-657 and 679-682
ContiDaRighe(righe, k) ==
    IF k > Len(righe) THEN <<>>
    ELSE estrai_conto_da_riga_csv(righe[k]) \o ContiDaRighe(righe, k + 1)

-----------------------------------------------------------------------------
(* PDFParserRobusto: declared totals and company data.  The patterns are   *)
(* used with re.IGNORECASE: a letter stands for both of its cases.         *)

\* [^\n] and, without re.DOTALL, the dot, over the characters of the
\* texts of the model
NonNewline ==
    RSet((Letter \cup Digit \cup Whitespace
             \cup {".", ",", "-", "'", "&", ":", "/", "(", ")", "_", ";"}) \ {"\n"})

\* a literal text under re.IGNORECASE
RParola(s) ==
    LET UpperChar(c) == IF \E k \in 1..26 : At(Minuscole, k) = c
                        THEN At(Maiuscole, CHOOSE k \in 1..26 : At(Minuscole, k) = c)
                        ELSE c
    IN  RCat([k \in 1..Len(s) |-> RSet({LowerChar(At(s, k)), UpperChar(At(s, k))})])

\* [:\s]+
ReDuePunti == RPlus(RSet({":"} \cup Whitespace))

\* lines 511-515: (pattern, nome); group 1 is the part number g.  The two
\* alternatives of each label are one expression under re.IGNORECASE.
patterns_totali ==
    << [subs |-> <<RCat(<<RParola("totale"), Spazi, RParola("attivo")>>),
                   ReDuePunti, ReImporto>>, g |-> 3, nome |-> "attivo"],
       [subs |-> <<RCat(<<RParola("totale"), Spazi, RParola("passivo")>>),
                   ReDuePunti, ReImporto>>, g |-> 3, nome |-> "passivo"],
       [subs |-> <<RCat(<<RParola("patrimonio"), Spazi, RParola("netto")>>),
                   ReDuePunti, ReImporto>>, g |-> 3, nome |-> "patrimonio_netto"],
       \* (?:Utile|UTILE).*?[:\s]+(...)
       [subs |-> <<RParola("utile"), RLazy(NonNewline), ReDuePunti, ReImporto>>,
        g |-> 4, nome |-> "utile"],
       [subs |-> <<RParola("perdita"), RLazy(NonNewline), ReDuePunti, ReImporto>>,
        g |-> 4, nome |-> "perdita"] >>

RECURSIVE TotaliDa(_, _, _)
\* lines 518-525, from the pattern number k
TotaliDa(testo, k, totali) ==
    IF k > Len(patterns_totali) THEN totali
    ELSE LET p == patterns_totali[k]
             m == ReSearch(p.subs, testo, 1)
         IN  TotaliDa(testo, k + 1,
                 IF m.ok
                 THEN (p.nome :> converti_importo(Group(testo, m, p.g)).valore) @@ totali
                 ELSE totali)

\* _estrai_totali(testo, totali): the dict after the call
estrai_totali(testo, totali) == TotaliDa(testo, 1, totali)

\* \d{4}
ReAnno == RRep(RSet(Digit), 4, 4)

\* \d{1,2}[/\-]\d{1,2}[/\-]\d{4}
ReData ==
    RCat(<<RRep(RSet(Digit), 1, 2), RSet({"/", "-"}), RRep(RSet(Digit), 1, 2),
           RSet({"/", "-"}), ReAnno>>)

\* S\.?R\.?L\.? and the like
ReSigla(a, b, c) ==
    RCat(<<RParola(a), ROpt(RLit(".")), RParola(b), ROpt(RLit(".")),
           RParola(c), ROpt(RLit("."))>>)

\* lines 402-425: campo, and its patterns in the order of the list.  The
\* texts of the model are ASCII: the alternative 'Società' matches none.
patterns_info ==
    << [campo |-> "societa", lista |-> <<
          \* (?:Denominazione|Ragione Sociale|Società)[:\s]+([^\n]+)
          [subs |-> <<RAlt(<<RParola("denominazione"), RParola("ragione sociale")>>),
                      ReDuePunti, RPlus(NonNewline)>>, g |-> 3],
          \* ([A-Z][A-Z\s&\.\-]+(?:S\.?R\.?L\.?|S\.?P\.?A\.?|S\.?N\.?C\.?))
          [subs |-> <<RCat(<<RSet(Letter),
                             RPlus(RSet(Letter \cup Whitespace \cup {"&", ".", "-"})),
                             RAlt(<<ReSigla("s", "r", "l"), ReSigla("s", "p", "a"),
                                    ReSigla("s", "n", "c")>>)>>)>>, g |-> 1],
          \* Bilancio di\s+([^\n]+)
          [subs |-> <<RParola("bilancio di"), Spazi, RPlus(NonNewline)>>, g |-> 3] >>],
       [campo |-> "esercizio", lista |-> <<
          \* (?:Esercizio|Anno)[:\s]+(\d{4})
          [subs |-> <<RAlt(<<RParola("esercizio"), RParola("anno")>>),
                      ReDuePunti, ReAnno>>, g |-> 3],
          \* (?:al\s+31[/\-]12[/\-])(\d{4})
          [subs |-> <<RCat(<<RParola("al"), Spazi, RStr("31"), RSet({"/", "-"}),
                             RStr("12"), RSet({"/", "-"})>>), ReAnno>>, g |-> 2],
          \* (?:Bilancio\s+)(\d{4})
          [subs |-> <<RCat(<<RParola("bilancio"), Spazi>>), ReAnno>>, g |-> 2],
          \* (\d{4})\s+(?:Bilancio)
          [subs |-> <<ReAnno, Spazi, RParola("bilancio")>>, g |-> 1] >>],
       [campo |-> "partita_iva", lista |-> <<
          \* (?:P\.?\s?IVA|Partita IVA)[:\s]+(\d{11})
          [subs |-> <<RAlt(<<RCat(<<RParola("p"), ROpt(RLit(".")),
                                    ROpt(RSet(Whitespace)), RParola("iva")>>),
                             RParola("partita iva")>>),
                      ReDuePunti, RRep(RSet(Digit), 11, 11)>>, g |-> 3],
          \* (?:IT\s?)(\d{11})
          [subs |-> <<RCat(<<RParola("it"), ROpt(RSet(Whitespace))>>),
                      RRep(RSet(Digit), 11, 11)>>, g |-> 2] >>],
       [campo |-> "codice_fiscale", lista |-> <<
          \* (?:C\.?F\.?|Codice Fiscale)[:\s]+([A-Z0-9]{16})
          [subs |-> <<RAlt(<<RCat(<<RParola("c"), ROpt(RLit(".")), RParola("f"),
                                    ROpt(RLit("."))>>),
                             RParola("codice fiscale")>>),
                      ReDuePunti, RRep(RSet(Letter \cup Digit), 16, 16)>>, g |-> 3] >>],
       [campo |-> "data_chiusura", lista |-> <<
          \* (?:chiuso al|al)\s+(\d{1,2}[/\-]\d{1,2}[/\-]\d{4})
          [subs |-> <<RAlt(<<RParola("chiuso al"), RParola("al")>>), Spazi, ReData>>,
           g |-> 3],
          \* (\d{1,2}[/\-]\d{1,2}[/\-]\d{4})
          [subs |-> <<ReData>>, g |-> 1] >>] >>

RECURSIVE UltimoPattern(_, _, _)
\* lines 429-433 without the break: the last pattern of the list that
\* matches gives the value
UltimoPattern(testo, lista, k) ==
    IF k > Len(lista) THEN <<>>
    ELSE LET m == ReSearch(lista[k].subs, testo, 1)
             r == UltimoPattern(testo, lista, k + 1)
         IN  IF r # <<>> THEN r
             ELSE IF m.ok THEN <<Strip(Group(testo, m, lista[k].g), Whitespace)>>
             ELSE <<>>

RECURSIVE PrimoPattern(_, _, _)
\* lines 429-433: the first pattern of the list that matches, from the
\* pattern number k, in a sequence: <<>> when none matches
PrimoPattern(testo, lista, k) ==
    IF k > Len(lista) THEN <<>>
    ELSE LET m == ReSearch(lista[k].subs, testo, 1)
         IN  IF m.ok THEN <<Strip(Group(testo, m, lista[k].g), Whitespace)>>
             ELSE PrimoPattern(testo, lista, k + 1)

RECURSIVE InfoDa(_, _, _)
\* lines 427-433, from the field number k
InfoDa(testo, k, info) ==
    IF k > Len(patterns_info) THEN info
    ELSE LET p == patterns_info[k]
             v == PrimoPattern(testo, p.lista, 1)
         IN  InfoDa(testo, k + 1,
                 IF (p.campo \notin DOMAIN info \/ info[p.campo] = "") /\ v # <<>>
                 THEN (p.campo :> v[1]) @@ info
                 ELSE info)

\* _estrai_info_aziendali(testo, info): the dict after the call
estrai_info_aziendali(testo, info) == InfoDa(testo, 1, info)

\* _analizza_blocco_testo(testo, risultati): risultati after the call
analizza_blocco_testo(testo, risultati) ==
    [risultati EXCEPT !.info = estrai_info_aziendali(testo, @),
                      !.conti = estrai_conti(testo, @),
                      !.totali = estrai_totali(testo, @)]

-----------------------------------------------------------------------------
(* PDFParserRobusto: the table scan, the validation and the two            *)
(* extraction strategies.  A document is the sequence of its pages, a      *)
(* page the sequence of its text blocks.                                   *)

keywords_bilancio ==
    <<"immobilizzazioni", "attivo", "passivo", "patrimonio", "crediti",
      "debiti", "cassa", "banca", "fornitori", "clienti", "rimanenze",
      "capitale sociale", "riserve", "utile", "perdita", "ammortamento",
      "ratei", "risconti", "tfr", "fondi", "totale">>

\* \d{3} in the place of the pattern of line 486
ReTreCifre == RRep(RSet(Digit), 3, 3)

\* \d{1,3}(?:[.,]\d{3})*(?:[.,]\d{2})?
ReNumero ==
    RCat(<<RRep(RSet(Digit), 1, 3),
           RRep(RCat(<<RSet({".", ","}), RRep(RSet(Digit), 3, 3)>>), 0, Inf),
           ROpt(RCat(<<RSet({".", ","}), RRep(RSet(Digit), 2, 2)>>))>>)

RECURSIVE processa_buffer_tabella(_, _, _)
\* lines 503-505, from the line number k: the record list after the call
processa_buffer_tabella(righe, k, conti) ==
    IF k > Len(righe) THEN conti
    ELSE processa_buffer_tabella(righe, k + 1, estrai_conti(righe[k], conti))

RECURSIVE TabelleRighe(_, _, _, _, _)
\* lines 478-498, from the line number k
TabelleRighe(righe, k, in_tabella, buffer_tabella, conti) ==
    IF k > Len(righe)
    THEN IF buffer_tabella # <<>>
         THEN processa_buffer_tabella(buffer_tabella, 1, conti)
         ELSE conti
    ELSE LET riga   == righe[k]
             aperta == in_tabella \/ ContieneUna(Lower(riga), keywords_bilancio)
             numeri == FindIter(<<ReNumero>>, riga, 1)
         IN  IF ~aperta THEN TabelleRighe(righe, k + 1, FALSE, buffer_tabella, conti)
             ELSE IF Len(numeri) >= 1
                  THEN TabelleRighe(righe, k + 1, TRUE, Append(buffer_tabella, riga), conti)
             ELSE IF Len(buffer_tabella) > 3
                  THEN TabelleRighe(righe, k + 1, FALSE, <<>>,
                                    processa_buffer_tabella(buffer_tabella, 1, conti))
             ELSE TabelleRighe(righe, k + 1, TRUE, buffer_tabella, conti)

\* _estrai_tabelle_da_testo(testo, risultati): risultati after the call
estrai_tabelle_da_testo(testo, risultati) ==
    [risultati EXCEPT !.conti = TabelleRighe(Split(testo, "\n"), 1, FALSE, <<>>, @)]

RECURSIVE ContiValidi(_, _)
\* lines 583-602, from the record number k: the records that are kept
ContiValidi(conti, k) ==
    IF k > Len(conti) THEN <<>>
    ELSE LET desc == Lower(conti[k].descrizione)
             valido ==
                /\ ~(desc # "" /\ Keep(desc, Digit \cup Whitespace \cup {"-", "/", "."}) = desc)
                /\ Len(desc) >= 3
                /\ ~ContieneUna(desc,                       \* skip_patterns
                          <<"pagina", "pag.", "totale pagina", "riporto", "segue">>)
         IN  (IF valido THEN <<conti[k]>> ELSE <<>>) \o ContiValidi(conti, k + 1)

RECURSIVE SommaPositivi(_, _)
\* sum(c['valore'] for c in conti if c['valore'] > 0)
SommaPositivi(conti, k) ==
    IF k > Len(conti) THEN Zero
    ELSE Add(IF conti[k].valore.num > 0 THEN conti[k].valore ELSE Zero,
             SommaPositivi(conti, k + 1))

\* _valida_e_pulisci_risultati(risultati)
valida_e_pulisci_risultati(risultati) ==
    LET conti_validi == ContiValidi(risultati.conti, 1)
        totale       == SommaPositivi(conti_validi, 1)
    IN  [risultati EXCEPT
            !.conti = conti_validi,
            !.totali = IF DOMAIN @ = {} /\ conti_validi # <<>> /\ totale.num > 0
                       THEN ("calcolato" :> totale) @@ @
                       ELSE @]

\* the dict with which parse and the two strategies start
RisultatiVuoti == [info |-> <<>>, conti |-> <<>>, totali |-> <<>>, testo_estratto |-> ""]

RECURSIVE Unisci(_, _)
\* sep.join(parti)
Unisci(parti, sep) ==
    IF parti = <<>> THEN ""
    ELSE IF Len(parti) = 1 THEN parti[1]
    ELSE parti[1] \o sep \o Unisci(Tail(parti), sep)

RECURSIVE BlocchiPuliti(_, _)
\* lines 328-332: element.get_text().strip() of the text boxes of a page,
\* the empty ones left out
BlocchiPuliti(pagina, k) ==
    IF k > Len(pagina) THEN <<>>
    ELSE (IF Strip(pagina[k], Whitespace) # "" THEN <<Strip(pagina[k], Whitespace)>> ELSE <<>>)
         \o BlocchiPuliti(pagina, k + 1)

RECURSIVE AnalizzaBlocchi(_, _, _)
\* _analizza_blocco_testo for each text of the sequence, in order
AnalizzaBlocchi(testi, k, risultati) ==
    IF k > Len(testi) THEN risultati
    ELSE AnalizzaBlocchi(testi, k + 1, analizza_blocco_testo(testi[k], risultati))

RECURSIVE PagineMiner(_, _, _)
\* lines 325-338, from the page number k: risultati and testo_strutturato
PagineMiner(pagine, k, acc) ==
    IF k > Len(pagine) THEN acc
    ELSE LET testo_pagina == BlocchiPuliti(pagine[k], 1)
         IN  PagineMiner(pagine, k + 1,
                 [risultati |-> AnalizzaBlocchi(testo_pagina, 1, acc.risultati),
                  testo_strutturato |->
                      IF testo_pagina # <<>>
                      THEN Append(acc.testo_strutturato, Unisci(testo_pagina, "\n"))
                      ELSE acc.testo_strutturato])

\* _parse_con_pdfminer(file_stream) when the library reads the document;
\* the text the library gives for a page is its blocks, one per line
parse_con_pdfminer(pagine) ==
    LET testo_completo == Unisci([k \in 1..Len(pagine) |-> Unisci(pagine[k], "\n")], "\n")
        acc == PagineMiner(pagine, 1,
                   [risultati |-> [RisultatiVuoti EXCEPT !.testo_estratto = testo_completo],
                    testo_strutturato |-> <<>>])
    IN  IF acc.testo_strutturato # <<>>
        THEN estrai_tabelle_da_testo(Unisci(acc.testo_strutturato, "\n"), acc.risultati)
        ELSE acc.risultati

RECURSIVE PaginePypdf2(_, _, _)
\* lines 365-373, from the page number k: risultati and testo_completo
PaginePypdf2(pagine, k, acc) ==
    IF k > Len(pagine) THEN acc
    ELSE LET testo == Unisci(pagine[k], "\n")
         IN  PaginePypdf2(pagine, k + 1,
                 IF testo # ""
                 THEN [risultati |-> analizza_blocco_testo(testo, acc.risultati),
                       testo_completo |-> Append(acc.testo_completo, testo)]
                 ELSE acc)

\* _parse_con_pypdf2(file_stream) when the library reads the document
parse_con_pypdf2(pagine) ==
    LET acc == PaginePypdf2(pagine, 1, [risultati |-> RisultatiVuoti, testo_completo |-> <<>>])
        risultati == [acc.risultati EXCEPT !.testo_estratto = Unisci(acc.testo_completo, "\n")]
    IN  IF risultati.testo_estratto # ""
        THEN estrai_tabelle_da_testo(risultati.testo_estratto, risultati)
        ELSE risultati

-----------------------------------------------------------------------------
(* Taxonomies and files of the model.                                      *)

\* the rule of the end-to-end scenario, alone under the assets root
MappingLiquidity ==
    Nodo(<<
      Figlio("attivo", Nodo(<<
        Figlio("liquidity",                \* 1[-_](1|2)[-_]?\d*
          Regola(Pat3("1", AltStr(<<"1", "2">>), RCat(<<ROpt(Sep), Cifre0>>)),
                 <<"cassa", "banca">>)) >>)),
      Figlio("passivo", Nodo(<<>>)) >>)

\* category names that are dot-joined paths, and a category that the
\* skeleton of the tree does not have
MappingPunti ==
    Nodo(<<
      Figlio("attivo", Nodo(<<
        Figlio("immobilizzazioni.materiali.impianti",    \* 1[-_]6[-_]\d+
          Regola(Pat3("1", RStr("6"), RCat(<<Sep, Cifre1>>)), <<"impianti">>)),
        Figlio("circolante.cassa",                       \* 1[-_]1[-_]\d+
          Regola(Pat3("1", RStr("1"), RCat(<<Sep, Cifre1>>)), <<"cassa">>)),
        Figlio("altre.varie",                            \* 9[-_]\d+
          Regola(RCat(<<RStr("9"), Sep, Cifre1>>), <<"varie">>)) >>)),
      Figlio("passivo", Nodo(<<
        Figlio("capitale",                               \* 2[-_]13[-_]\d+
          Regola(Pat3("2", RStr("13"), RCat(<<Sep, Cifre1>>)), <<"capitale">>)) >>)) >>)

\* internal nodes that carry a pattern of their own
MappingAnnidato ==
    Nodo(<<
      Figlio("attivo", Nodo(<<
        Figlio("immobilizzazioni", Nodo(<<
          Figlio("materiali",                            \* 1[-_]6
            NodoRegola(RCat(<<RStr("1"), Sep, RStr("6")>>), <<"impianti">>, <<
              Figlio("impianti",                         \* 1[-_]6[-_]1
                Regola(Pat3("1", RStr("6"), RCat(<<Sep, RStr("1")>>)), <<>>)) >>)),
          Figlio("immateriali",                          \* 1[-_]7[-_]\d+
            Regola(Pat3("1", RStr("7"), RCat(<<Sep, Cifre1>>)), <<"software">>)) >>)),
        Figlio("circolante",                             \* 1[-_]1
          NodoRegola(RCat(<<RStr("1"), Sep, RStr("1")>>), <<"cassa">>, <<
            Figlio("disponibilita",                      \* 1[-_]1[-_]\d+
              Regola(Pat3("1", RStr("1"), RCat(<<Sep, Cifre1>>)), <<>>)) >>)) >>)),
      Figlio("passivo", Nodo(<<
        Figlio("patrimonio_netto",                       \* 2[-_]13
          Regola(RCat(<<RStr("2"), Sep, RStr("13")>>), <<"capitale">>)) >>)) >>)

Riga(codice, descrizione, saldo) ==
    <<<<"Codice", codice>>, <<"Descrizione", descrizione>>, <<"Saldo", saldo>>>>

\* the rows a delimited-text or spreadsheet reader may deliver
Righe ==
    { Riga("1-1-10", "Cassa contanti", "1.500,00"),
      Riga("1-6-1", "Impianti", "200"),
      Riga("1.7.1", "Software gestionale", "100"),
      Riga("1-16-2", "Licenze software", "300,5"),
      Riga("2-13-1", "Capitale sociale", "150"),
      Riga("9-99-1", "voce ignota", "10"),
      Riga("7-1", "Fornitore Rossi", " 50 "),
      <<<<"Conto", "2-2-1">>, <<"Note", "x">>, <<"Avere", "abc">>>> }

\* a structured document: a result saved by the program
ContoCassa == [codice |-> "1_1_10", descrizione |-> "Cassa contanti", valore |-> Intero(1500)]

DocumentoSalvato ==
    [info |-> <<>>,
     attivo |-> Metti(ScheletroAttivo, <<"circolante", "disponibilita">>, Lista(<<ContoCassa>>)),
     passivo |-> ScheletroPassivo,
     totali |-> [attivo |-> Intero(1500), passivo |-> Zero, quadratura |-> Intero(1500)]]

RECURSIVE SeqFino(_, _)
\* the sequences of at most n elements of S
SeqFino(S, n) ==
    IF n = 0 THEN {<<>>}
    ELSE LET P == SeqFino(S, n - 1)
         IN  P \cup {Append(q, x) : q \in {r \in P : Len(r) = n - 1}, x \in S}

-----------------------------------------------------------------------------
(* ParserDatiDinamico.parse_uploaded_file, step by step: the adapter of    *)
(* the file's kind, then _organizza_dati_cee (the skeleton, one            *)
(* _classifica_conto per record, _calcola_totali).                         *)

Init ==
    /\ fase = "inattivo"
    /\ mapping \in {carica_mapping_default, MappingLiquidity, MappingPunti, MappingAnnidato}
    /\ ingresso = Nessuno
    /\ dati_raw = Nessuno
    /\ indice = 0
    /\ struttura = Nessuno
    /\ esito = Nessuno

\* parse_csv_from_stream, lines 643-657; line 654:
\* row = {k: v.strip() if v else '' for k, v in row.items()}
ParseCsv ==
    /\ fase = "inattivo"
    /\ \E righe \in SeqFino(Righe, MaxRighe) :
          /\ ingresso' = [tipo |-> "csv", righe |-> righe]
          /\ dati_raw' = [info |-> <<>>,
                          conti |-> ContiDaRighe(
                              [k \in 1..Len(righe) |->
                                  [c \in 1..Len(righe[k]) |->
                                      <<righe[k][c][1], Strip(righe[k][c][2], Whitespace)>>]], 1),
                          totali |-> <<>>]
    /\ fase' = "organizza"
    /\ UNCHANGED <<mapping, indice, struttura, esito>>

\* parse_excel_from_stream, lines 666-682
ParseExcel ==
    /\ fase = "inattivo"
    /\ \E righe \in SeqFino(Righe, MaxRighe) :
          /\ ingresso' = [tipo |-> "xlsx", righe |-> righe]
          /\ dati_raw' = [info |-> <<>>,
                          conti |-> ContiDaRighe(righe, 1),
                          totali |-> <<>>]
    /\ fase' = "organizza"
    /\ UNCHANGED <<mapping, indice, struttura, esito>>

\* _organizza_dati_cee, lines 808-839: the skeleton of the tree
Organizza ==
    /\ fase = "organizza"
    /\ struttura' = [info |-> dati_raw.info,
                     attivo |-> ScheletroAttivo,
                     passivo |-> ScheletroPassivo]
    /\ indice' = 0
    /\ fase' = "classifica"
    /\ UNCHANGED <<mapping, ingresso, dati_raw, esito>>

\* lines 842-843: self._classifica_conto(conto, struttura_cee) for the
\* next record; an exception leaves parse_uploaded_file
ClassificaConto ==
    /\ fase = "classifica"
    /\ indice < Len(dati_raw.conti)
    /\ LET r == classifica_conto(mapping, dati_raw.conti[indice + 1], struttura)
       IN  /\ struttura' = r.struttura
           /\ indice' = indice + 1
           /\ IF r.eccezione = ""
              THEN fase' = "classifica" /\ esito' = esito
              ELSE /\ fase' = "errore"
                   /\ esito' = [eccezione |-> r.eccezione, funzione |-> "_classifica_conto"]
    /\ UNCHANGED <<mapping, ingresso, dati_raw>>

\* lines 845-852: totali_originali, _calcola_totali, return struttura_cee
CalcolaTotali ==
    /\ fase = "classifica"
    /\ indice = Len(dati_raw.conti)
    /\ LET s == IF DOMAIN dati_raw.totali # {}
                THEN struttura @@ ("totali_originali" :> dati_raw.totali)
                ELSE struttura
           t == calcola_totali(s)
       IN  IF t.eccezione = ""
           THEN /\ struttura' = [k \in DOMAIN s \cup {"totali"} |->
                                    IF k = "totali" THEN t.totali ELSE s[k]]
                /\ esito' = struttura'
                /\ fase' = "fatto"
           ELSE /\ struttura' = s
                /\ esito' = [eccezione |-> t.eccezione, funzione |-> "_calcola_totali"]
                /\ fase' = "errore"
    /\ UNCHANGED <<mapping, ingresso, dati_raw, indice>>

\* parse_json_from_stream, line 688: the document as json.loads gives it
ParseJson ==
    /\ fase = "inattivo"
    /\ \E doc \in {DocumentoSalvato,
                     [DocumentoSalvato EXCEPT
                         !.passivo = Metti(ScheletroPassivo, <<"debiti">>,
                             Lista(<<[codice |-> "2_2_1", descrizione |-> "Fornitori",
                                      valore |-> Intero(400)]>>))]} :
          /\ ingresso' = [tipo |-> "json", doc |-> doc]
          /\ esito' = doc
    /\ fase' = "fatto"
    /\ UNCHANGED <<mapping, dati_raw, indice, struttura>>

\* parse_pdf_from_stream, line 694, and PDFParserRobusto.parse, lines
\* 265-288: the strategy to try first; with no library the empty dict is
\* returned as it is.  Each library is absent, or present and then reads
\* the document or raises while reading it.
ParsePdf ==
    /\ fase = "inattivo"
    /\ \E pagine \in SeqFino(
              \* the pages of the model, each the sequence of its text blocks
              { <<"1-1-10 Cassa contanti 1.500,00">>,
                <<"Totale Attivo: 1.500,00", "2-13-1 Capitale sociale 150">>,
                <<"Bilancio di Rossi SRL", "  ", "1-6-1 Impianti 200,00">>,
                <<"9-99-1 voce ignota 10">>,
                <<"12 pagina uno 5\n7-1-2 Fornitori 50,5">> }, MaxPagine),
          lib \in [pdfminer : {"assente", "riesce", "fallisce"},
                   pypdf2 : {"assente", "riesce", "fallisce"}] :
          /\ ingresso' = [tipo |-> "pdf", pagine |-> pagine, posizione |-> 0,
                          pdfminer |-> lib.pdfminer, pypdf2 |-> lib.pypdf2]
          /\ fase' = IF lib.pdfminer # "assente" THEN "pdfminer"
                     ELSE IF lib.pypdf2 # "assente" THEN "pypdf2"
                     ELSE "organizza"
    /\ dati_raw' = RisultatiVuoti
    /\ UNCHANGED <<mapping, indice, struttura, esito>>

\* a seek that leaves the stream where it is
SeekIgnorato(file_stream, offset) == file_stream

\* file_stream.seek(offset)
Seek(file_stream, offset) == [file_stream EXCEPT !.posizione = offset]

\* line 275 with what the strategy had extracted when it raised assigned
DopoEccezioneParziale(risultati, parziale) == parziale

\* lines 274-277 when _parse_con_pdfminer raises: the assignment of line 275
\* is not made, risultati is what it was and parziale, the dict the strategy
\* was filling (lines 298-303), is dropped
DopoEccezione(risultati, parziale) == risultati

\* lines 274-280 and 291: _parse_con_pdfminer returns and the result is
\* validated, or it raises and parse falls back on PyPDF2, if it is
\* there, after file_stream.seek(0).  A library that reads the document
\* leaves the stream at its end, one that raises at any page boundary.
ParseConPdfminer ==
    /\ fase = "pdfminer"
    /\ \E letto \in {[ingresso EXCEPT !.posizione = pos] : pos \in 0..Len(ingresso.pagine)} :
          IF ingresso.pdfminer = "riesce"
          THEN /\ dati_raw' = valida_e_pulisci_risultati(parse_con_pdfminer(ingresso.pagine))
               /\ letto.posizione = Len(ingresso.pagine)
               /\ ingresso' = letto
               /\ fase' = "organizza"
          ELSE LET risultati ==
                       DopoEccezione(dati_raw,
                           PagineMiner(SubSeq(ingresso.pagine, 1, letto.posizione), 1,
                                       [risultati |-> RisultatiVuoti,
                                        testo_strutturato |-> <<>>]).risultati)
               IN  IF ingresso.pypdf2 # "assente"
                   THEN /\ dati_raw' = risultati
                        /\ ingresso' = Seek(letto, 0)
                        /\ fase' = "pypdf2"
                   ELSE /\ dati_raw' = valida_e_pulisci_risultati(risultati)
                        /\ ingresso' = letto
                        /\ fase' = "organizza"
    /\ UNCHANGED <<mapping, indice, struttura, esito>>

\* lines 280, 284 and 291: _parse_con_pypdf2 returns and the result is
\* validated, or it raises and the exception leaves parse
ParseConPypdf2 ==
    /\ fase = "pypdf2"
    /\ \E pos \in 0..Len(ingresso.pagine) : ingresso' = [ingresso EXCEPT !.posizione = pos]
    /\ IF ingresso.pypdf2 = "riesce"
       THEN /\ ingresso'.posizione = Len(ingresso.pagine)
            /\ dati_raw' = valida_e_pulisci_risultati(parse_con_pypdf2(ingresso.pagine))
            /\ fase' = "organizza"
            /\ esito' = esito
       ELSE /\ dati_raw' = dati_raw
            /\ fase' = "errore"
            /\ esito' = [eccezione |-> "Exception", funzione |-> "_parse_con_pypdf2"]
    /\ UNCHANGED <<mapping, indice, struttura>>

\* lines 638-639: a file of any other extension
ParseNonSupportato ==
    /\ fase = "inattivo"
    /\ ingresso' = [tipo |-> "txt"]
    /\ esito' = [eccezione |-> "ValueError", funzione |-> "parse_uploaded_file"]
    /\ fase' = "errore"
    /\ UNCHANGED <<mapping, dati_raw, indice, struttura>>

Next ==
    \/ ParseCsv
    \/ ParseExcel
    \/ ParseJson
    \/ ParsePdf
    \/ ParseConPdfminer
    \/ ParseConPypdf2
    \/ ParseNonSupportato
    \/ Organizza
    \/ ClassificaConto
    \/ CalcolaTotali

Spec == Init /\ [][Next]_vars

-----------------------------------------------------------------------------
(* Specification of the aggregator: _calcola_totali applied to a tree      *)
(* built by hand, with or without declared totals.                         *)

ContiManuali ==
    {[codice |-> "1_1", descrizione |-> "voce", valore |-> Intero(n)] : n \in {100, 200, 150}}

InitTotali ==
    /\ fase = "classifica"
    /\ mapping = carica_mapping_default
    /\ ingresso = Nessuno
    /\ dati_raw \in {[info |-> <<>>, conti |-> <<>>, totali |-> t] :
                        t \in {<<>>, [attivo |-> Intero(999)]}}
    /\ indice = 0
    /\ struttura \in
          { [info |-> <<>>,
             attivo |-> Metti(ScheletroAttivo, p, Lista(a)),
             passivo |-> Metti(ScheletroPassivo, <<"debiti">>, Lista(b))] :
               p \in {<<"ratei_risconti">>, <<"circolante", "crediti", "clienti">>},
               a \in SeqFino(ContiManuali, MaxConti),
               b \in SeqFino(ContiManuali, MaxConti) }
    /\ esito = Nessuno

SpecTotali == InitTotali /\ [][CalcolaTotali]_vars

-----------------------------------------------------------------------------
(* Specification of the recursive sum: _somma_ricorsiva applied to a tree  *)
(* built by hand, the skeleton of the assets with records at two depths    *)
(* and one more branch, under the root or under 'circolante', whose name   *)
(* is or is not one of the names line 989 leaves out.                      *)

InitSomma ==
    /\ fase = "albero"
    /\ mapping = carica_mapping_default
    /\ ingresso = Nessuno
    /\ dati_raw = RisultatiVuoti
    /\ indice = 0
    /\ struttura \in
          { Metti(Metti(Metti(ScheletroAttivo, <<"ratei_risconti">>, Lista(a)),
                        <<"circolante", "crediti", "clienti">>, Lista(b)),
                  ramo, Lista(c)) :
               a \in SeqFino(ContiManuali, MaxConti - 1),
               b \in SeqFino(ContiManuali, MaxConti - 1),
               c \in SeqFino(ContiManuali, MaxConti),
               ramo \in {q \o <<k>> : q \in {<<>>, <<"circolante">>},
                                      k \in {"info", "totali", "totali_originali", "altri"}} }
    /\ esito = Nessuno

\* _somma_ricorsiva(struttura)
SommaRicorsiva ==
    /\ fase = "albero"
    /\ fase' = "sommato"
    /\ esito' = somma_ricorsiva(struttura)
    /\ UNCHANGED <<mapping, ingresso, dati_raw, indice, struttura>>

SpecSomma == InitSomma /\ [][SommaRicorsiva]_vars

-----------------------------------------------------------------------------
(* Specification of the table scan: _estrai_tabelle_da_testo on one text,  *)
(* a line of the text at each step, and then the validation with which a   *)
(* strategy's result leaves parse (line 291).  ingresso holds the lines of  *)
(* the text and the two locals of the scan; the buffer holds the numbers   *)
(* of the lines, which tell equal lines apart.  esito is the history: the  *)
(* lines put in the buffer and the blocks handed to                        *)
(* _processa_buffer_tabella.                                               *)

\* line 493 with the buffer left as it is
BufferIntatto(buffer_tabella) == buffer_tabella

\* line 493: buffer_tabella = []
DopoProcessa(buffer_tabella) == <<>>

\* righe = testo.split('\n'); a line with a keyword and a numeral, a line
\* with a numeral and no keyword, an empty line
InitTabella ==
    /\ fase = "scansione"
    /\ mapping = Nessuno
    /\ ingresso \in
          { [righe |-> r, in_tabella |-> FALSE, buffer_tabella |-> <<>>] :
               r \in SeqFino({"1-1-1 Cassa 10", "3-1-1 ,,, 5", ""}, MaxLinee)
                        \ {<<>>} }
    /\ dati_raw = RisultatiVuoti
    /\ indice = 0
    /\ struttura = Nessuno
    /\ esito = [bufferizzate |-> <<>>, sottomesse |-> <<>>]

\* lines 478-494 for one line of the text
ScansionaRiga ==
    /\ fase = "scansione"
    /\ indice < Len(ingresso.righe)
    /\ LET riga       == ingresso.righe[indice + 1]
           in_tabella == \/ ingresso.in_tabella
                         \/ ContieneUna(Lower(riga), keywords_bilancio)
           numeri     == FindIter(<<ReNumero>>, riga, 1)
           buffer     == ingresso.buffer_tabella
       IN  IF in_tabella /\ Len(numeri) >= 1
           THEN /\ ingresso' = [ingresso EXCEPT !.in_tabella = TRUE,
                                                !.buffer_tabella = Append(buffer, indice + 1)]
                /\ esito' = [esito EXCEPT !.bufferizzate = Append(@, indice + 1)]
                /\ dati_raw' = dati_raw
           ELSE IF in_tabella /\ Len(buffer) > 3
           THEN /\ ingresso' = [ingresso EXCEPT !.in_tabella = FALSE,
                                                !.buffer_tabella = DopoProcessa(buffer)]
                /\ esito' = [esito EXCEPT !.sottomesse = Append(@, buffer)]
                /\ dati_raw' = [dati_raw EXCEPT !.conti =
                                   processa_buffer_tabella(
                                       [k \in 1..Len(buffer) |-> ingresso.righe[buffer[k]]], 1, @)]
           ELSE /\ ingresso' = [ingresso EXCEPT !.in_tabella = in_tabella]
                /\ UNCHANGED <<esito, dati_raw>>
    /\ indice' = indice + 1
    /\ UNCHANGED <<fase, mapping, struttura>>

\* lines 496-498: the last table, and the function returns
FineScansione ==
    /\ fase = "scansione"
    /\ indice = Len(ingresso.righe)
    /\ LET buffer == ingresso.buffer_tabella
       IN  IF buffer # <<>>
           THEN /\ esito' = [esito EXCEPT !.sottomesse = Append(@, buffer)]
                /\ dati_raw' = [dati_raw EXCEPT !.conti =
                                   processa_buffer_tabella(
                                       [k \in 1..Len(buffer) |-> ingresso.righe[buffer[k]]], 1, @)]
           ELSE UNCHANGED <<esito, dati_raw>>
    /\ fase' = "fine"
    /\ UNCHANGED <<mapping, ingresso, indice, struttura>>

\* line 291: risultati = self._valida_e_pulisci_risultati(risultati)
ValidaEPulisci ==
    /\ fase = "fine"
    /\ dati_raw' = valida_e_pulisci_risultati(dati_raw)
    /\ fase' = "validato"
    /\ UNCHANGED <<mapping, ingresso, indice, struttura, esito>>

SpecTabella == InitTabella /\ [][ScansionaRiga \/ FineScansione \/ ValidaEPulisci]_vars

-----------------------------------------------------------------------------
(* Specification of the code normalizer: formatta_codice applied to a      *)
(* string, then to its own result.                                         *)

InitCodice ==
    /\ fase = "chiamata"
    /\ ingresso \in Stringhe({"1", "2", "-", "_", ",", ";", "a", " ", "\t"}, MaxLen)
    /\ esito = Nessuno
    /\ mapping = Nessuno
    /\ dati_raw = Nessuno
    /\ indice = 0
    /\ struttura = Nessuno

\* codice = formatta_codice(x)
FormattaCodice ==
    /\ fase = "chiamata"
    /\ esito' = formatta_codice(ingresso)
    /\ fase' = "formattato"
    /\ UNCHANGED <<mapping, ingresso, dati_raw, indice, struttura>>

\* formatta_codice(codice), the normalizer applied to a normalized code
RiformattaCodice ==
    /\ fase = "formattato"
    /\ ingresso' = esito
    /\ esito' = formatta_codice(esito)
    /\ fase' = "riformattato"
    /\ UNCHANGED <<mapping, dati_raw, indice, struttura>>

SpecCodice == InitCodice /\ [][FormattaCodice \/ RiformattaCodice]_vars

-----------------------------------------------------------------------------
(* Specification of the numeric parser: _converti_importo applied to a     *)
(* string, and _estrai_conto_da_riga_csv applied to a row with the string  *)
(* in its amount cell.                                                     *)

InitImporto ==
    /\ fase = "chiamata"
    /\ ingresso \in Stringhe({"0", "1", "5", ",", ".", "-", "(", ")", "a", " "}, MaxLen)
                      \cup {"1.234,56", "1,234.56", "(500,00)", "abc", "1.500,00", "1.2.3"}
    /\ esito = Nessuno
    /\ mapping = Nessuno
    /\ dati_raw = Nessuno
    /\ indice = 0
    /\ struttura = Nessuno

\* valore = self._converti_importo(valore_str)
ConvertiImporto ==
    /\ fase = "chiamata"
    /\ esito' = converti_importo(ingresso)
    /\ fase' = "convertito"
    /\ UNCHANGED <<mapping, ingresso, dati_raw, indice, struttura>>

\* conto = self._estrai_conto_da_riga_csv(row)
EstraiContoDaRigaCsv ==
    /\ fase = "chiamata"
    /\ esito' = [conti |-> estrai_conto_da_riga_csv(
                              << <<"Conto", "1-1-1">>, <<"Descrizione", "Cassa">>,
                                 <<"Saldo", ingresso>> >>)]
    /\ fase' = "riga"
    /\ UNCHANGED <<mapping, ingresso, dati_raw, indice, struttura>>

SpecImporto == InitImporto /\ [][ConvertiImporto \/ EstraiContoDaRigaCsv]_vars

-----------------------------------------------------------------------------
(* Specification of the extractor: _analizza_blocco_testo and              *)
(* _estrai_tabelle_da_testo called, in any order, with texts of one        *)
(* document on one dict of results, as the two strategies do (lines 335,   *)
(* 343, 373, 379).  ingresso is the sequence of the calls made.            *)

\* the texts of the model
Blocchi ==
    { "1-1-1 Cassa 1.000",
      "1-1-1 Cassa 1.000  ",
      "1-1-1 Cassa 1.005",
      "Bilancio di Rossi SRL\nTotale Attivo: 1.500,00",
      "Denominazione: Verdi SPA\nTotale attivo: 200,00",
      "Denominazione:  ",
      "Esercizio: 2023 Bilancio 2024" }

InitBlocchi ==
    /\ fase = "estrazione"
    /\ ingresso = <<>>
    /\ dati_raw = RisultatiVuoti
    /\ indice = 0
    /\ mapping = Nessuno
    /\ struttura = Nessuno
    /\ esito = Nessuno

\* self._analizza_blocco_testo(testo, risultati)
AnalizzaBloccoTesto ==
    /\ fase = "estrazione"
    /\ indice < MaxBlocchi
    /\ \E testo \in Blocchi :
          /\ dati_raw' = analizza_blocco_testo(testo, dati_raw)
          /\ ingresso' = Append(ingresso, [chiamata |-> "_analizza_blocco_testo", testo |-> testo])
    /\ indice' = indice + 1
    /\ UNCHANGED <<fase, mapping, struttura, esito>>

\* self._estrai_tabelle_da_testo(testo, risultati)
EstraiTabelleDaTesto ==
    /\ fase = "estrazione"
    /\ indice < MaxBlocchi
    /\ \E testo \in Blocchi :
          /\ dati_raw' = estrai_tabelle_da_testo(testo, dati_raw)
          /\ ingresso' = Append(ingresso, [chiamata |-> "_estrai_tabelle_da_testo", testo |-> testo])
    /\ indice' = indice + 1
    /\ UNCHANGED <<fase, mapping, struttura, esito>>

SpecBlocchi == InitBlocchi /\ [][AnalizzaBloccoTesto \/ EstraiTabelleDaTesto]_vars

-----------------------------------------------------------------------------
(* Specification of two passes of the classifier: the records of one list  *)
(* are classified, with one taxonomy, into two trees that start equal; the *)
(* calls on the two trees interleave in any order.  esito holds, for each  *)
(* tree, the number of records classified and the exception raised.        *)

InitDue ==
    /\ fase = "classifica"
    /\ mapping \in {carica_mapping_default, MappingLiquidity, MappingPunti, MappingAnnidato}
    /\ \E righe \in SeqFino(Righe, MaxRighe) :
          /\ ingresso = [tipo |-> "xlsx", righe |-> righe]
          /\ dati_raw = [info |-> <<>>, conti |-> ContiDaRighe(righe, 1), totali |-> <<>>]
    /\ struttura = [copia \in {"uno", "due"} |->
                       [info |-> <<>>, attivo |-> ScheletroAttivo, passivo |-> ScheletroPassivo]]
    /\ esito = [copia \in {"uno", "due"} |-> [classificati |-> 0, eccezione |-> ""]]
    /\ indice = 0

\* self._classifica_conto(conto, struttura_cee) for the next record of one
\* of the two trees
ClassificaCopia ==
    /\ fase = "classifica"
    /\ \E copia \in {"uno", "due"} :
          /\ esito[copia].eccezione = ""
          /\ esito[copia].classificati < Len(dati_raw.conti)
          /\ LET r == classifica_conto(mapping, dati_raw.conti[esito[copia].classificati + 1],
                                       struttura[copia])
             IN  /\ struttura' = [struttura EXCEPT ![copia] = r.struttura]
                 /\ esito' = [esito EXCEPT ![copia] =
                                 [classificati |-> @.classificati + 1,
                                  eccezione |-> r.eccezione]]
    /\ indice' = indice + 1
    /\ UNCHANGED <<fase, mapping, ingresso, dati_raw>>

SpecDue == InitDue /\ [][ClassificaCopia]_vars

-----------------------------------------------------------------------------
(* Specification of the classifier on twin records: the records of one     *)
(* list are classified into one tree and, into a second tree that starts   *)
(* equal, the same records but for the last, which has the same code and   *)
(* description and another amount.  Two of the rows match only the rule of *)
(* the root 'fondi_ammortamento' of the default taxonomy.                  *)

InitGemelli ==
    /\ fase = "classifica"
    /\ mapping \in {carica_mapping_default, MappingLiquidity, MappingPunti, MappingAnnidato}
    /\ \E righe \in SeqFino({ Riga("1-1-10", "Cassa contanti", "1.500,00"),
                               Riga("1-6-1", "Impianti", "200"),
                               Riga("2-13-1", "Capitale sociale", "150"),
                               Riga("7-1", "Fornitore Rossi", " 50 "),
                               Riga("2-9-1", "ammortamento", "70"),
                               Riga("2-9-2", "F.do amm. fondo", "80") }, MaxRighe) :
          LET conti == ContiDaRighe(righe, 1)
          IN  /\ ingresso = [tipo |-> "xlsx", righe |-> righe]
              /\ dati_raw = [info |-> <<>>, conti |-> conti, totali |-> <<>>,
                             gemelli |-> [k \in 1..Len(conti) |->
                                            IF k = Len(conti)
                                            THEN [conti[k] EXCEPT !.valore = Add(@, Intero(1))]
                                            ELSE conti[k]]]
    /\ struttura = [copia \in {"uno", "due"} |->
                       [info |-> <<>>, attivo |-> ScheletroAttivo, passivo |-> ScheletroPassivo]]
    /\ esito = [copia \in {"uno", "due"} |-> [classificati |-> 0, eccezione |-> ""]]
    /\ indice = 0

\* self._classifica_conto(conto, struttura_cee) for the next record of one
\* of the two trees, the second with the twin of the last record
ClassificaGemello ==
    /\ fase = "classifica"
    /\ \E copia \in {"uno", "due"} :
          LET conti == IF copia = "uno" THEN dati_raw.conti ELSE dati_raw.gemelli
          IN  /\ esito[copia].eccezione = ""
              /\ esito[copia].classificati < Len(conti)
              /\ LET r == classifica_conto(mapping, conti[esito[copia].classificati + 1],
                                           struttura[copia])
                 IN  /\ struttura' = [struttura EXCEPT ![copia] = r.struttura]
                     /\ esito' = [esito EXCEPT ![copia] =
                                     [classificati |-> @.classificati + 1,
                                      eccezione |-> r.eccezione]]
    /\ indice' = indice + 1
    /\ UNCHANGED <<fase, mapping, ingresso, dati_raw>>

SpecGemelli == InitGemelli /\ [][ClassificaGemello]_vars

-----------------------------------------------------------------------------
(* What the claims are stated with.                                        *)

\* how many times the record appears in the lists of t
RECURSIVE Volte(_, _)
Volte(conti, c) ==
    IF conti = <<>> THEN 0
    ELSE (IF Head(conti) = c THEN 1 ELSE 0) + Volte(Tail(conti), c)

Occorrenze(t, c) == Volte(ContiDi(t, DOMAIN t), c)

\* the record classified last
UltimoConto == dati_raw.conti[indice]

\* a tree is being filled, or was filled and returned
InClassifica == indice > 0 /\ fase \in {"classifica", "fatto"}

RECURSIVE PrimoNodo(_, _, _, _), PrimoTraFigli(_, _, _, _, _)
\* the path (the dot-joined names, split) of the first node in pre-order
\* of declaration that matches by itself, in a sequence: <<>> when no node
\* matches
PrimoNodo(codice, descrizione, config, path) ==
    IF MatchNodo(codice, descrizione, config) THEN <<path>>
    ELSE PrimoTraFigli(codice, descrizione, config.figli, 1, path)

PrimoTraFigli(codice, descrizione, figli, k, path) ==
    IF k > Len(figli) THEN <<>>
    ELSE LET r == PrimoNodo(codice, descrizione, figli[k].config,
                            path \o Split(figli[k].nome, "."))
         IN  IF r # <<>> THEN r
             ELSE PrimoTraFigli(codice, descrizione, figli, k + 1, path)

\* the same for the children of a root: the root itself is not a category
PrimoSotto(m, sezione, conto) ==
    PrimoTraFigli(conto.codice, Lower(conto.descrizione), Radice(m, sezione).figli, 1, <<>>)

\* the structural pass reports a match for the record
MatchStrutturale(m, conto) ==
    \/ PrimaCategoria(m, "attivo", conto.codice, Lower(conto.descrizione)) # 0
    \/ PrimaCategoria(m, "passivo", conto.codice, Lower(conto.descrizione)) # 0

\* p is a prefix of q
Prefisso(p, q) == Len(p) <= Len(q) /\ SubSeq(q, 1, Len(p)) = p

\* the record is in the list at path p of the tree t or, when p is an
\* internal node of t, in a list below p
NellaLista(t, p, conto) ==
    \E q \in DOMAIN t :
        /\ Prefisso(p, q)
        /\ t[q].tipo = "list"
        /\ Volte(t[q].conti, conto) > 0

\* the number of records equal to conto among the first n of conti
Molteplicita(conti, n, conto) == Volte(SubSeq(conti, 1, n), conto)

\* the sum of every record of every list of the tree, whatever its shape
SommaAlbero(t) == SommaConti(ContiDi(t, DOMAIN t))

\* C1: when the structural pass finds a match, the record is inserted at
\* the path of the first matching node in pre-order declaration order (in
\* a list below it when the path is an internal node of the tree), under
\* 'attivo' if a node there matches and under 'passivo' otherwise.
C1_PrimoNodoInPreordine ==
    (InClassifica /\ MatchStrutturale(mapping, UltimoConto)) =>
        LET a == PrimoSotto(mapping, "attivo", UltimoConto)
            p == PrimoSotto(mapping, "passivo", UltimoConto)
        IN  IF a # <<>> THEN NellaLista(struttura.attivo, a[1], UltimoConto)
            ELSE NellaLista(struttura.passivo, p[1], UltimoConto)

\* C2: every record for which the structural pass reported a match is in
\* exactly one list of the tree after _classifica_conto returns: it is
\* never dropped.
C2_MaiScartato ==
    InClassifica =>
        \A k \in 1..indice :
            MatchStrutturale(mapping, dati_raw.conti[k]) =>
                Occorrenze(struttura.attivo, dati_raw.conti[k])
                    + Occorrenze(struttura.passivo, dati_raw.conti[k])
                        = Molteplicita(dati_raw.conti, indice, dati_raw.conti[k])

\* C3: _classifica_conto returns without raising for every record and
\* every taxonomy with 'attivo' and 'passivo' roots, and a record that
\* matches nothing leaves the tree unchanged.
C3_ClassificaSempreRiesce ==
    [][ClassificaConto =>
          /\ fase' # "errore"
          /\ (~MatchStrutturale(mapping, dati_raw.conti[indice + 1])
                /\ PrimaKeyword(Lower(dati_raw.conti[indice + 1].descrizione)) = 0)
               => struttura' = struttura]_vars

\* C4: a file whose text holds the line '1-1-10 Cassa contanti 1.500,00',
\* once extracted and classified with the liquidity rule (pattern
\* 1[-_](1|2)[-_]?\d*, keywords cassa and banca), has the record of that
\* line, with amount 1500.00, in the liquidity leaf: the list
\* attivo.circolante.disponibilita of the default taxonomy, the list of
\* the rule when the rule stands alone.
RigaCassa == "1-1-10 Cassa contanti 1.500,00"

\* a strategy has read the document and one of its blocks is the line
RigaEstratta ==
    /\ ingresso.tipo = "pdf"
    /\ ingresso.pdfminer = "riesce"
         \/ (ingresso.pdfminer = "fallisce" /\ ingresso.pypdf2 = "riesce")
         \/ (ingresso.pdfminer = "assente" /\ ingresso.pypdf2 = "riesce")
    /\ \E k \in 1..Len(ingresso.pagine) :
          \E b \in 1..Len(ingresso.pagine[k]) : ingresso.pagine[k][b] = RigaCassa

C4_RigaCassaInLiquidita ==
    (fase = "fatto" /\ RigaEstratta) =>
        /\ mapping = carica_mapping_default =>
              /\ Volte(esito.attivo[<<"circolante", "disponibilita">>].conti, ContoCassa) = 1
              /\ Occorrenze(esito.attivo, ContoCassa) = 1
              /\ Occorrenze(esito.passivo, ContoCassa) = 0
        /\ mapping = MappingLiquidity =>
              /\ <<"liquidity">> \in DOMAIN esito.attivo
              /\ Volte(esito.attivo[<<"liquidity">>].conti, ContoCassa) = 1

C4_Witness ==
    /\ fase = "fatto"
    /\ mapping = carica_mapping_default
    /\ ingresso.tipo = "pdf"
    /\ ingresso.pdfminer = "fallisce"
    /\ ingresso.pypdf2 = "riesce"
    /\ ingresso.pagine = << <<RigaCassa>> >>
    /\ esito.attivo[<<"circolante", "disponibilita">>].conti = <<ContoCassa>>
    /\ ContoCassa.valore = Intero(1500)
    /\ esito.totali.attivo = Intero(1500)

\* C5: a record matching no pattern and no keyword is absent from every
\* list of the returned tree, adds to no total, and the result counts it
\* as unclassified: when records were dropped the result has an entry,
\* beside the ones of the tree and of the totals, that carries the count.
NonClassificabile(m, conto) ==
    ~MatchStrutturale(m, conto) /\ PrimaKeyword(Lower(conto.descrizione)) = 0

ChiaviDelRisultato == {"info", "attivo", "passivo", "totali", "totali_originali"}

ChiaviDeiTotali == {"attivo", "passivo", "quadratura", "originali"}

C5_ScartoContato ==
    (fase = "fatto" /\ ingresso.tipo \in {"csv", "xlsx", "pdf"}) =>
        \A k \in 1..Len(dati_raw.conti) :
            NonClassificabile(mapping, dati_raw.conti[k]) =>
                /\ Occorrenze(esito.attivo, dati_raw.conti[k]) = 0
                /\ Occorrenze(esito.passivo, dati_raw.conti[k]) = 0
                /\ esito.totali.attivo = SommaAlbero(esito.attivo)
                /\ esito.totali.passivo = SommaAlbero(esito.passivo)
                /\ \/ DOMAIN esito \ ChiaviDelRisultato # {}
                   \/ DOMAIN esito.totali \ ChiaviDeiTotali # {}

\* C6: _calcola_totali stores quadratura = attivo - passivo, attivo and
\* passivo being the sums of the records of the two roots; records of 100
\* and 200 under assets and of 150 under liabilities give 300, 150, 150.
Importi(conti) == [k \in 1..Len(conti) |-> conti[k].valore]

C6_Quadratura ==
    fase = "fatto" =>
        /\ esito.totali.attivo = SommaAlbero(struttura.attivo)
        /\ esito.totali.passivo = SommaAlbero(struttura.passivo)
        /\ esito.totali.quadratura = Sub(esito.totali.attivo, esito.totali.passivo)
        /\ (/\ Importi(ContiDi(struttura.attivo, DOMAIN struttura.attivo))
                  = <<Intero(100), Intero(200)>>
            /\ Importi(ContiDi(struttura.passivo, DOMAIN struttura.passivo))
                  = <<Intero(150)>>)
             => /\ esito.totali.attivo = Intero(300)
                /\ esito.totali.passivo = Intero(150)
                /\ esito.totali.quadratura = Intero(150)

C6_Witness ==
    /\ fase = "fatto"
    /\ Importi(ContiDi(struttura.attivo, DOMAIN struttura.attivo))
          = <<Intero(100), Intero(200)>>
    /\ Importi(ContiDi(struttura.passivo, DOMAIN struttura.passivo)) = <<Intero(150)>>
    /\ esito.totali.quadratura = Intero(150)

\* C7: in every result returned by parse_uploaded_file, whatever the kind
\* of the file, the stored totals are the sums of the result's own trees
\* and the balance gap is their difference.
C7_TotaliDerivati ==
    fase = "fatto" =>
        /\ "totali" \in DOMAIN esito
        /\ esito.totali.attivo = SommaAlbero(esito.attivo)
        /\ esito.totali.passivo = SommaAlbero(esito.passivo)
        /\ esito.totali.quadratura = Sub(esito.totali.attivo, esito.totali.passivo)

\* C8: the code normalizer is idempotent: normalizing a normalized code
\* gives the same string.
C8_Idempotente == fase = "riformattato" => esito = ingresso

\* C9: formatta_codice returns the digit groups of its input joined by one
\* canonical separator: each of the ten separator glyphs separates groups,
\* every other character that is not a digit is removed.
Glifi == {"-", ".", "/", "\\", " ", ",", ";", ":", "|", "_"}

GruppiDiCifre(x) ==
    Strip(RimuoviUnderscoreMultipli(ReplaceChars(Keep(x, Digit \cup Glifi), Glifi, "_")),
          {"_"})

C9_GruppiDiCifre == fase = "formattato" => esito = GruppiDiCifre(ingresso)

\* C10: _converti_importo returns a number without raising for every
\* string, and 0.0 when no number can be recovered: no digit in the
\* string, or a cleaned form with several periods.
PiuPunti(x) ==
    \/ Count(x, ".") > 1 /\ Count(x, ",") = 0
    \/ Count(x, ".") > 1 /\ Count(x, ",") > 0 /\ RIndex(x, ",") < RIndex(x, ".")
    \/ Count(x, ",") > 1 /\ Count(x, ".") > 0 /\ RIndex(x, ",") > RIndex(x, ".")

C10_ImportoTotale ==
    fase = "convertito" =>
        /\ esito.eccezione = ""
        /\ (Keep(ingresso, Digit) = "" \/ PiuPunti(ingresso)) => esito.valore = Zero

C10_Witness ==
    /\ fase = "convertito"
    /\ ingresso = "1.2.3"
    /\ esito = [eccezione |-> "", valore |-> Zero]


\* the number of digits of x after the last occurrence of c
CifreDopo(x, c) == Len(Keep(SubSeq(x, RIndex(x, c) + 1, Len(x)), Digit))

\* the digits of p read as a number with `dopo' decimal places
Decimale(p, dopo) == Norm(ToInt(Keep(p, Digit)), dopo)

\* the magnitude the separators of p (digits, commas and periods) stand
\* for: with both, the one occurring last is the decimal point; a lone
\* comma followed by at most two digits is the decimal point and commas
\* are grouping otherwise; periods alone are left as they are.  A string
\* without digits, or with more than one decimal point, gives 0.
Grandezza(p) ==
    LET virgole == Count(p, ",")
        punti   == Count(p, ".")
    IN  IF Keep(p, Digit) = "" THEN Zero
        ELSE IF virgole > 0 /\ punti > 0
        THEN IF RIndex(p, ",") > RIndex(p, ".")
             THEN IF virgole = 1 THEN Decimale(p, CifreDopo(p, ",")) ELSE Zero
             ELSE IF punti = 1 THEN Decimale(p, CifreDopo(p, ".")) ELSE Zero
        ELSE IF virgole > 0
        THEN IF virgole = 1 /\ Len(p) - RIndex(p, ",") <= 2
             THEN Decimale(p, CifreDopo(p, ","))
             ELSE Decimale(p, 0)
        ELSE IF punti > 1 THEN Zero
        ELSE IF punti = 1 THEN Decimale(p, CifreDopo(p, "."))
        ELSE Decimale(p, 0)

Assoluto(a) == IF a.num < 0 THEN Neg(a) ELSE a

\* C11: for every input, _converti_importo returns, up to the sign, the
\* number that the disambiguation of the separators gives for the input
\* cleaned of everything but digits, commas and periods; '1.234,56' and
\* '1,234.56' give 1234.56 and '(500,00)' gives -500.
C11_Separatori ==
    fase = "convertito" =>
        /\ Assoluto(esito.valore) = Grandezza(Keep(ingresso, Digit \cup {",", "."}))
        /\ ingresso \in {"1.234,56", "1,234.56"} => esito.valore = [num |-> 123456, dec |-> 2]
        /\ ingresso = "(500,00)" => esito.valore = Intero(0 - 500)

C11_Witness ==
    /\ fase = "convertito"
    /\ ingresso = "1,234.56"
    /\ esito.valore = [num |-> 123456, dec |-> 2]

\* a negative marker on the trimmed input: a leading '-', the whole value
\* in parentheses, or a trailing '-'
Marcato(x) ==
    LET s == Strip(x, Whitespace)
    IN  \/ StartsWith(s, "-")
        \/ StartsWith(s, "(") /\ EndsWith(s, ")")
        \/ EndsWith(s, "-")

\* C12: _converti_importo returns a negative number exactly when the
\* trimmed input carries a negative marker (leading '-', enclosing
\* parentheses, trailing '-') and the parsed magnitude is not zero.
C12_SegnoNegativo ==
    (fase = "convertito" /\ esito.valore.num # 0) =>
        (esito.valore.num < 0 <=> Marcato(ingresso))


\* the strategies of the document in hand that parse attempts all fail,
\* or there is none
NessunaRiesce == ingresso.pdfminer # "riesce" /\ ingresso.pypdf2 # "riesce"

\* parse has returned or raised for the PDF in hand
ParseFinito == fase \in {"organizza", "classifica", "fatto", "errore"} /\ ingresso.tipo = "pdf"

\* C13: when no library is available or every strategy attempted fails,
\* PDFParserRobusto.parse does not raise and returns empty text and no
\* records.
C13_ParseNonSolleva ==
    (ParseFinito /\ NessunaRiesce) =>
        /\ fase # "errore"
        /\ dati_raw.testo_estratto = ""
        /\ dati_raw.conti = <<>>

\* C14: PyPDF2 is started after pdfminer only by the step in which
\* pdfminer ends with a failure, never when pdfminer succeeded, and that
\* step leaves the stream at offset 0, where PyPDF2 then finds it.
C14_RipiegoOrdinato ==
    [][/\ (fase' = "pypdf2" /\ ingresso'.pdfminer # "assente") =>
              /\ fase = "pdfminer"
              /\ ingresso.pdfminer = "fallisce"
              /\ ingresso'.posizione = 0
       /\ (fase = "pypdf2" /\ fase' # "pypdf2" /\ ingresso.pdfminer # "assente") =>
              /\ ingresso.pdfminer = "fallisce"
              /\ ingresso.posizione = 0]_vars

C14_Witness ==
    /\ fase = "organizza"
    /\ ingresso.tipo = "pdf"
    /\ ingresso.pdfminer = "fallisce"
    /\ ingresso.pypdf2 = "riesce"
    /\ ingresso.pagine # <<>>
    /\ dati_raw.testo_estratto # ""


Popolato(info, campo) == campo \in DOMAIN info /\ info[campo] # ""

\* re.search of the pattern number j of the list in the text
Trova(lista, j, testo) == ReSearch(lista[j].subs, testo, 1)

\* C16: a populated field of info is never changed by a later call, and a
\* field that _estrai_info_aziendali fills takes the value of the first
\* pattern of its list, in list order, that matches the text.
C16_PrimoVinceScriviUnaVolta ==
    [][\A k \in 1..Len(patterns_info) :
          LET campo == patterns_info[k].campo
              lista == patterns_info[k].lista
              testo == ingresso'[Len(ingresso')].testo
          IN  IF Popolato(dati_raw.info, campo)
              THEN dati_raw'.info[campo] = dati_raw.info[campo]
              ELSE IF /\ ingresso'[Len(ingresso')].chiamata = "_analizza_blocco_testo"
                      /\ \E j \in 1..Len(lista) : Trova(lista, j, testo).ok
                   THEN \E j \in 1..Len(lista) :
                           /\ \A i \in 1..(j - 1) : ~Trova(lista, i, testo).ok
                           /\ Trova(lista, j, testo).ok
                           /\ dati_raw'.info[campo] =
                                  Strip(Group(testo, Trova(lista, j, testo), lista[j].g),
                                        Whitespace)
                   ELSE ~Popolato(dati_raw'.info, campo)]_vars

C16_Witness ==
    /\ fase = "estrazione"
    /\ Len(ingresso) = 2
    /\ ingresso[1] = [chiamata |-> "_analizza_blocco_testo",
                      testo |-> "Bilancio di Rossi SRL\nTotale Attivo: 1.500,00"]
    /\ ingresso[2] = [chiamata |-> "_analizza_blocco_testo",
                      testo |-> "Denominazione: Verdi SPA\nTotale attivo: 200,00"]
    /\ dati_raw.info["societa"] = "Bilancio di Rossi SRL"

\* C17: a declared total that has been stored for a label is not
\* replaced by a later call of _estrai_totali whose text matches the
\* label again.
C17_PrimoTotaleVince ==
    [][\A nome \in DOMAIN dati_raw.totali :
          dati_raw'.totali[nome] = dati_raw.totali[nome]]_vars


NellAlbero(s) ==
    {ContiDi(s.attivo, DOMAIN s.attivo)[i] : i \in 1..Len(ContiDi(s.attivo, DOMAIN s.attivo))}
        \cup {ContiDi(s.passivo, DOMAIN s.passivo)[i] :
                 i \in 1..Len(ContiDi(s.passivo, DOMAIN s.passivo))}

\* C19: every step of the pass of _organizza_dati_cee (a call of
\* _classifica_conto, or the totals at its end) leaves the taxonomy and
\* the records given to it as they were, and every record of the tree is
\* one of the records given, with its code, description and amount.
C19_SoloLAlbero ==
    [][fase = "classifica" =>
          /\ mapping' = mapping
          /\ dati_raw' = dati_raw
          /\ NellAlbero(struttura') \subseteq
                 {dati_raw.conti[i] : i \in 1..Len(dati_raw.conti)}]_vars

C19_Witness ==
    /\ fase = "fatto"
    /\ ingresso.tipo = "csv"
    /\ mapping = carica_mapping_default
    /\ Len(dati_raw.conti) = 2
    /\ dati_raw.conti[1].descrizione = "Cassa contanti"
    /\ dati_raw.conti[2].descrizione = "Capitale sociale"
    /\ NellAlbero(struttura) = {dati_raw.conti[1], dati_raw.conti[2]}

\* the node n of the tree is in the tree after the step, of the same kind
\* and with its records as the first records of the list
Conservato(prima, dopo, p) ==
    /\ p \in DOMAIN dopo
    /\ dopo[p].tipo = prima[p].tipo
    /\ Len(dopo[p].conti) >= Len(prima[p].conti)
    /\ SubSeq(dopo[p].conti, 1, Len(prima[p].conti)) = prima[p].conti

\* the number of records in the lists of the two roots of the tree s
QuantiConti(s) ==
    Len(ContiDi(s.attivo, DOMAIN s.attivo)) + Len(ContiDi(s.passivo, DOMAIN s.passivo))

\* C20: a call of _classifica_conto keeps every node of the tree, with
\* the records of each list as an unchanged prefix of its later content,
\* and adds at most one record to the whole tree.
C20_SoloAggiunte ==
    [][(fase = "classifica" /\ indice' = indice + 1) =>
          /\ \A p \in DOMAIN struttura.attivo :
                Conservato(struttura.attivo, struttura'.attivo, p)
          /\ \A p \in DOMAIN struttura.passivo :
                Conservato(struttura.passivo, struttura'.passivo, p)
          /\ QuantiConti(struttura') <= QuantiConti(struttura) + 1]_vars

C20_Witness ==
    /\ fase = "classifica"
    /\ indice = 2
    /\ \E p \in DOMAIN struttura.attivo :
          /\ Len(struttura.attivo[p].conti) = 2
          /\ struttura.attivo[p].conti = dati_raw.conti
          /\ dati_raw.conti[1] # dati_raw.conti[2]

\* the keywords of _classifica_per_keywords in the order the scan meets
\* them, each with the root and the list it stands for
ParoleInOrdine ==
    LET imm == <<"immobilizzazioni", "immateriali">>
        dis == <<"circolante", "disponibilita">>
    IN  << <<"immobilizz", "attivo", imm>>, <<"software", "attivo", imm>>,
           <<"brevett", "attivo", imm>>, <<"impianto", "attivo", imm>>,
           <<"macchin", "attivo", imm>>, <<"fabbricat", "attivo", imm>>,
           <<"terren", "attivo", imm>>,
           <<"client", "attivo", dis>>, <<"credit", "attivo", dis>>,
           <<"cassa", "attivo", dis>>, <<"banca", "attivo", dis>>,
           <<"rimanenz", "attivo", dis>>, <<"magazz", "attivo", dis>>,
           <<"ratei attiv", "attivo", <<"ratei_risconti">> >>,
           <<"riscont attiv", "attivo", <<"ratei_risconti">> >>,
           <<"capitale", "passivo", <<"patrimonio_netto">> >>,
           <<"riserv", "passivo", <<"patrimonio_netto">> >>,
           <<"utili", "passivo", <<"patrimonio_netto">> >>,
           <<"perdite", "passivo", <<"patrimonio_netto">> >>,
           <<"fornitor", "passivo", <<"debiti">> >>, <<"debit", "passivo", <<"debiti">> >>,
           <<"mutui", "passivo", <<"debiti">> >>, <<"prestit", "passivo", <<"debiti">> >>,
           <<"finanziament", "passivo", <<"debiti">> >>,
           <<"tfr", "passivo", <<"fondi">> >>, <<"fondo", "passivo", <<"fondi">> >>,
           <<"accantonament", "passivo", <<"fondi">> >>,
           <<"ratei passiv", "passivo", <<"ratei_risconti">> >>,
           <<"riscont passiv", "passivo", <<"ratei_risconti">> >> >>

\* the i-th keyword is the first of the scan found in the description
PrimaTrovata(i, descrizione) ==
    /\ Contains(descrizione, ParoleInOrdine[i][1])
    /\ \A j \in 1..(i - 1) : ~Contains(descrizione, ParoleInOrdine[j][1])

\* the tree s with the record appended once to the list at path p of a root
ConUnContoInPiu(s, sezione, p, conto) ==
    [s EXCEPT ![sezione] = [@ EXCEPT ![p] = [@ EXCEPT !.conti = Append(@, conto)]]]

\* C21: a call of _classifica_conto whose structural pass finds no match
\* appends the record once to the list of the first keyword of the scan
\* found in its lower-cased description, and leaves the tree as it was
\* when no keyword is found; when the structural pass finds a match the
\* tree is the one the structural insertion leaves, whatever the keywords.
C21_PrimaParolaChiave ==
    [][(fase = "classifica" /\ indice' = indice + 1) =>
          LET conto == dati_raw.conti[indice + 1]
              d     == Lower(conto.descrizione)
              ka    == PrimaCategoria(mapping, "attivo", conto.codice, d)
              kp    == PrimaCategoria(mapping, "passivo", conto.codice, d)
          IN  IF ka # 0
              THEN struttura' = ClassificaIn(mapping, "attivo", ka, conto, struttura).struttura
              ELSE IF kp # 0
              THEN struttura' = ClassificaIn(mapping, "passivo", kp, conto, struttura).struttura
              ELSE /\ fase' = "classifica"
                   /\ \A i \in 1..Len(ParoleInOrdine) :
                         PrimaTrovata(i, d) =>
                            struttura' = ConUnContoInPiu(struttura, ParoleInOrdine[i][2],
                                                         ParoleInOrdine[i][3], conto)
                   /\ (\A i \in 1..Len(ParoleInOrdine) : ~Contains(d, ParoleInOrdine[i][1]))
                         => struttura' = struttura]_vars

C21_Witness ==
    /\ fase = "classifica"
    /\ indice = 2
    /\ ~MatchStrutturale(mapping, dati_raw.conti[1])
    /\ ~MatchStrutturale(mapping, dati_raw.conti[2])
    /\ dati_raw.conti[1].descrizione = "Software gestionale"
    /\ dati_raw.conti[2].descrizione = "Fornitore Rossi"
    /\ struttura.attivo[<<"immobilizzazioni", "immateriali">>].conti = <<dati_raw.conti[1]>>
    /\ struttura.passivo[<<"debiti">>].conti = <<dati_raw.conti[2]>>

\* the paths of t that go through no branch named info, totali or
\* totali_originali
FuoriDaiMetadati(t) ==
    {p \in DOMAIN t : \A k \in 1..Len(p) : p[k] \notin {"info", "totali", "totali_originali"}}

HaUnaLettera(s) == \E k \in 1..Len(s) : At(s, k) \in Letter

\* C23: every record of the result a strategy of PDFParserRobusto.parse
\* returns, after the table scan and the validation of the records, has a
\* description of at least 3 characters, with something in it that is
\* neither a digit nor punctuation nor white space, and with none of the
\* tokens pagina, pag., totale pagina, riporto, segue, and has an amount
\* that is not zero.
C23_RecordValidi ==
    fase = "validato" =>
        \A k \in 1..Len(dati_raw.conti) :
            LET desc == Lower(dati_raw.conti[k].descrizione)
            IN  /\ Len(desc) >= 3
                /\ HaUnaLettera(desc)
                /\ \A parola \in {"pagina", "pag.", "totale pagina", "riporto", "segue"} :
                      ~Contains(desc, parola)
                /\ dati_raw.conti[k].valore # Zero

\* the line has a numeral token: a digit is one
HaCifra(riga) == \E k \in 1..Len(riga) : At(riga, k) \in Digit

\* the line has a section keyword
HaParolaChiave(riga) == ContieneUna(Lower(riga), keywords_bilancio)

\* C24: in the scan of _estrai_tabelle_da_testo a line is put in the
\* buffer exactly when it has a numeral token and a table is open, a table
\* being opened by a line with a section keyword, this line or an earlier
\* one; the buffer is handed to the line-pattern extraction and the table
\* closed only at a line with no numeral token met while the table is open
\* and the buffer holds more than 3 lines, or at the end of the text if the
\* buffer is not empty; after a close no line is buffered before the next
\* line with a keyword; the records change only when a block is handed over.
C24_ScansioneTabella ==
    /\ [](fase \in {"scansione", "fine", "validato"} =>
            \A k \in 1..Len(esito.bufferizzate) :
                LET n == esito.bufferizzate[k]
                IN  /\ HaCifra(ingresso.righe[n])
                    /\ \E m \in 1..n : HaParolaChiave(ingresso.righe[m]))
    /\ [][/\ (fase = "scansione" /\ indice' = indice + 1) =>
                LET riga   == ingresso.righe[indice + 1]
                    aperta == ingresso.in_tabella \/ HaParolaChiave(riga)
                    buffer == ingresso.buffer_tabella
                IN  /\ (aperta /\ HaCifra(riga)) =>
                          /\ ingresso'.buffer_tabella = Append(buffer, indice + 1)
                          /\ ingresso'.in_tabella
                          /\ esito'.sottomesse = esito.sottomesse
                    /\ (aperta /\ ~HaCifra(riga) /\ Len(buffer) > 3) =>
                          /\ esito'.sottomesse = Append(esito.sottomesse, buffer)
                          /\ ingresso'.buffer_tabella = <<>>
                          /\ ~ingresso'.in_tabella
                    /\ (aperta /\ ~HaCifra(riga) /\ Len(buffer) <= 3) =>
                          /\ ingresso'.buffer_tabella = buffer
                          /\ ingresso'.in_tabella
                          /\ esito'.sottomesse = esito.sottomesse
                    /\ ~aperta =>
                          /\ ingresso'.buffer_tabella = buffer
                          /\ ~ingresso'.in_tabella
                          /\ esito'.sottomesse = esito.sottomesse
          /\ (fase = "scansione" /\ fase' = "fine") =>
                esito'.sottomesse = IF ingresso.buffer_tabella # <<>>
                                    THEN Append(esito.sottomesse, ingresso.buffer_tabella)
                                    ELSE esito.sottomesse
          /\ (fase = "scansione" /\ esito'.sottomesse = esito.sottomesse) =>
                dati_raw' = dati_raw]_vars

C24_Witness ==
    /\ fase = "fine"
    /\ ingresso.righe = <<"1-1-1 Cassa 10", "3-1-1 ,,, 5", "3-1-1 ,,, 5", "3-1-1 ,,, 5",
                          "", "3-1-1 ,,, 5">>
    /\ esito.bufferizzate = <<1, 2, 3, 4>>
    /\ esito.sottomesse = << <<1, 2, 3, 4>> >>
    /\ ~ingresso.in_tabella

\* the number of times the line n was handed to _processa_buffer_tabella
Sottomessa(n) ==
    Cardinality({c \in (1..Len(esito.sottomesse)) \X (1..MaxLinee + 1) :
                    /\ c[2] <= Len(esito.sottomesse[c[1]])
                    /\ esito.sottomesse[c[1]][c[2]] = n})

\* C27: in _estrai_tabelle_da_testo a line put in the buffer is either
\* still in the buffer, once, or was handed to _processa_buffer_tabella,
\* once, and never both; when the function returns every buffered line was
\* handed over exactly once; the buffer is empty after a block is handed
\* over during the scan; only buffered lines are handed over; the lines
\* are visited once each, in order, and the function returns after the last.
C27_UnaSolaVolta ==
    /\ [](fase \in {"scansione", "fine", "validato"} =>
            /\ \A n \in 1..Len(ingresso.righe) :
                  LET messa     == Volte(esito.bufferizzate, n)
                      nelBuffer == Volte(ingresso.buffer_tabella, n)
                  IN  /\ messa <= 1
                      /\ IF fase = "scansione"
                         THEN nelBuffer + Sottomessa(n) = messa
                         ELSE Sottomessa(n) = messa
            /\ indice <= Len(ingresso.righe)
            /\ (fase # "scansione" => indice = Len(ingresso.righe)))
    /\ [][fase = "scansione" =>
             /\ (fase' = "scansione" => indice' = indice + 1)
             /\ (fase' = "scansione" /\ esito'.sottomesse # esito.sottomesse) =>
                   ingresso'.buffer_tabella = <<>>]_vars

C27_Witness ==
    /\ fase = "fine"
    /\ ingresso.righe = <<"1-1-1 Cassa 10", "3-1-1 ,,, 5", "3-1-1 ,,, 5", "3-1-1 ,,, 5",
                          "", "1-1-1 Cassa 10">>
    /\ esito.bufferizzate = <<1, 2, 3, 4, 6>>
    /\ esito.sottomesse = << <<1, 2, 3, 4>>, <<6>> >>

\* C25: the record _estrai_conto_da_riga_csv makes of a row carries, as
\* its amount, the value _converti_importo returns for the string of the
\* amount cell.
C25_StessoParser ==
    fase = "riga" =>
        \A k \in 1..Len(esito.conti) :
            esito.conti[k].valore = converti_importo(ingresso).valore

\* C26: when _parse_con_pdfminer raises, whatever it had read, the result
\* of parse is the validated result of _parse_con_pypdf2 on the document
\* when PyPDF2 is there and reads it, and the validated empty dict when
\* PyPDF2 is not there: nothing of the failed attempt is in it.
C26_NienteDelTentativoFallito ==
    [][(fase \in {"pdfminer", "pypdf2"} /\ fase' = "organizza"
          /\ ingresso.pdfminer = "fallisce") =>
            IF ingresso.pypdf2 = "assente"
            THEN /\ dati_raw'.conti = <<>>
                 /\ DOMAIN dati_raw'.info = {}
                 /\ DOMAIN dati_raw'.totali = {}
                 /\ dati_raw'.testo_estratto = ""
            ELSE dati_raw' = valida_e_pulisci_risultati(parse_con_pypdf2(ingresso.pagine))]_vars

C26_Witness ==
    /\ fase = "organizza"
    /\ ingresso.tipo = "pdf"
    /\ ingresso.pdfminer = "fallisce"
    /\ ingresso.pypdf2 = "assente"
    /\ ingresso.pagine = << <<"Totale Attivo: 1.500,00", "2-13-1 Capitale sociale 150">> >>
    /\ ingresso.posizione = 1
    /\ dati_raw.conti = <<>>
    /\ DOMAIN dati_raw.totali = {}

\* the records the copy classifies, and the record it classifies next
ContiDellaCopia(copia) == IF copia = "uno" THEN dati_raw.conti ELSE dati_raw.gemelli

\* the record matches no rule under 'attivo' or 'passivo' and matches, by
\* its code or its description, the rule of another root of the taxonomy
SoloAltraRadice(m, conto) ==
    /\ \A k \in 1..Len(m.figli) :
          m.figli[k].nome \in {"attivo", "passivo"} =>
             ~match_pattern_ricorsivo(conto.codice, Lower(conto.descrizione), m.figli[k].config)
    /\ \E k \in 1..Len(m.figli) :
          /\ m.figli[k].nome \notin {"attivo", "passivo"}
          /\ match_pattern_ricorsivo(conto.codice, Lower(conto.descrizione), m.figli[k].config)

\* C28: a call of _classifica_conto for a record that matches only the
\* rule of a root of the taxonomy other than 'attivo' and 'passivo' (in the
\* default taxonomy 'fondi_ammortamento', 2[-_]9[-_]\d+) does what it does
\* for a record that matches no rule: the record goes to the list of the
\* first keyword found in its description, and nowhere when none is found.
C28_SoloAttivoEPassivo ==
    [][\A copia \in {"uno", "due"} :
          (fase = "classifica" /\ esito'[copia].classificati = esito[copia].classificati + 1) =>
             LET conto == ContiDellaCopia(copia)[esito[copia].classificati + 1]
                 d     == Lower(conto.descrizione)
             IN  SoloAltraRadice(mapping, conto) =>
                    /\ esito'[copia].eccezione = ""
                    /\ \A i \in 1..Len(ParoleInOrdine) :
                          PrimaTrovata(i, d) =>
                             struttura'[copia] =
                                 ConUnContoInPiu(struttura[copia], ParoleInOrdine[i][2],
                                                 ParoleInOrdine[i][3], conto)
                    /\ (\A i \in 1..Len(ParoleInOrdine) : ~Contains(d, ParoleInOrdine[i][1]))
                          => struttura'[copia] = struttura[copia]]_vars

C28_Witness ==
    /\ mapping = carica_mapping_default
    /\ Len(dati_raw.conti) = 2
    /\ esito["uno"] = [classificati |-> 2, eccezione |-> ""]
    /\ dati_raw.conti[1].codice = "2_9_1"
    /\ dati_raw.conti[2].codice = "2_9_2"
    /\ SoloAltraRadice(mapping, dati_raw.conti[1])
    /\ SoloAltraRadice(mapping, dati_raw.conti[2])
    /\ struttura["uno"].passivo[<<"fondi">>].conti = <<dati_raw.conti[2]>>
    /\ DOMAIN struttura["uno"].passivo = DOMAIN ScheletroPassivo
    /\ QuantiConti(struttura["uno"]) = 1

\* the tree with the amounts of its records left out
SenzaImporti(t) ==
    [p \in DOMAIN t |->
        [tipo |-> t[p].tipo,
         conti |-> [k \in 1..Len(t[p].conti) |->
                       [codice |-> t[p].conti[k].codice,
                        descrizione |-> t[p].conti[k].descrizione]]]]

\* C29: two trees that were equal before the last call of _classifica_conto
\* on each, one for a record and one for a record with the same code and
\* description and another amount, have the same nodes and, in each list,
\* records with the same codes and descriptions in the same places: the two
\* records are at the same path or in neither tree, and the two calls
\* raise or return alike.
C29_ImportoIninfluente ==
    (fase = "classifica" /\ "gemelli" \in DOMAIN dati_raw
       /\ esito["uno"].classificati = esito["due"].classificati) =>
        /\ esito["uno"].eccezione = esito["due"].eccezione
        /\ SenzaImporti(struttura["uno"].attivo) = SenzaImporti(struttura["due"].attivo)
        /\ SenzaImporti(struttura["uno"].passivo) = SenzaImporti(struttura["due"].passivo)

C29_Witness ==
    /\ fase = "classifica"
    /\ "gemelli" \in DOMAIN dati_raw
    /\ Len(dati_raw.conti) = 2
    /\ esito["uno"].classificati = 2
    /\ esito["due"].classificati = 2
    /\ dati_raw.conti[2].valore # dati_raw.gemelli[2].valore
    /\ \E p \in DOMAIN struttura["uno"].attivo :
          /\ struttura["uno"].attivo[p].conti = dati_raw.conti
          /\ struttura["due"].attivo[p].conti = dati_raw.gemelli

=============================================================================
